---- MODULE Spec2Model ----
(***************************************************************************)
(* A model of fctl (Facets-cloud/fctl): the Content Differ, the Workspace  *)
(* Manager used by apply / plan / destroy, the Sanitization Engine, the    *)
(* Module Consolidator and the export-all orchestrator.                    *)
(*                                                                         *)
(* Each component has its own group of variables and its own               *)
(* specification (SpecDiff, SpecWS, SpecClean, SpecCons, SpecExport); the  *)
(* variables of the other components stay at their idle values.            *)
(***************************************************************************)
EXTENDS Integers, Sequences, FiniteSets, TLC

VARIABLES
    \* ---- Content Differ (pkg/utils: ExtractZip, IsZipDifferentFromDir)
    zipFile,      \* the archive: a sequence of entries [name, content, isDir]
    dirTree,      \* the directory: clean relative path of each file -> content
    extracted,    \* TRUE once ExtractZip(zipFile, dirTree) has run
    mutated,      \* paths whose content was changed after the extraction
    cmp,          \* the last IsZipDifferentFromDir: [done, different, err]
    \* ---- Module Consolidator (cmd/export_all.go: consolidateModules)
    cEnvs,        \* the environments handed over: sequence of [name, status]
    cMods,        \* per environment: [exists, files] of <project>/<env>/modules
    cOrig,        \* cMods as it was when consolidateModules was called
    consTree,     \* <project>/modules: relative path -> content
    moduleRegistry, \* relative paths already copied in this run
    conflictCount,  \* conflicts counted in this run
    cErrs,        \* indices of the environments whose walk returned an error
    cLogged,      \* the conflicts logged: pairs of environment index and path
    cIdx,         \* index of the next environment of the loop
    cPc,          \* "start", "loop", "done"
    \* ---- export-all orchestrator (cmd/export_all.go, cmd/export_common.go)
    eEnvs,        \* the environments slice, shared with ExportProgress
    completed,    \* ExportProgress.completed
    failed,       \* ExportProgress.failed
    inProgress,   \* ExportProgress.inProgress
    lastLines,    \* ExportProgress.lastLines
    skipFailed,   \* the --skip-failed flag
    wPc,          \* per environment: where its worker goroutine stands
    wFailAt,      \* per environment: the step that failed, or "none"
    wErr,         \* per environment: [remote, err], the message the control
                  \* plane gave and the error the worker got back (<<>>: nil)
    dPc,          \* the display goroutine: "running" or "stopped"
    mPc,          \* where exportSingleProject stands
    postEnvs,     \* successfulEnvs of postProcessExports (indices into eEnvs)
    mResult,      \* what exportSingleProject returned: "none", "nil", "error"
    projFiles,    \* the files below the project directory: component sequences
    \* ---- Workspace Manager (cmd/apply.go, cmd/plan.go, cmd/destroy.go)
    ws,           \* ~/.facets/<env>: deployment id -> tree of its directory
    zips,         \* ids of the <id>.zip files in ~/.facets the pattern matches
    latest,       \* content of <env>/tf.tfstate, "none" if absent
    latestAlt,    \* content of <env>/latest.tfstate, "none" if absent
    matArt,       \* per target deployment: the artifact last materialized
    runs,         \* commands run so far
    lastRun,      \* what the last command did
    \* ---- Sanitization Engine (pkg/utils: CleanExportedFiles)
    cfgTree,      \* the exported tree CleanExportedFiles works on
    cfgOrig,      \* the tree as it was extracted
    cfgPrev,      \* the tree as it was before the last CleanExportedFiles
    cleanRuns,    \* how often CleanExportedFiles has run on the tree
    cleanRet,     \* what the last CleanExportedFiles returned
    \* ---- retention (cmd/common.go: cleanupOldReleases)
    relDirs,      \* the directories in envDir, by the rank of their names
    relZips,      \* the files in baseDir that match the zip pattern, by rank
    relKeep,      \* what cleanupOldReleases never lists: files in envDir,
                  \* directories and other files in baseDir
    relBefore,    \* [dirs, zips, keep] when cleanupOldReleases was called
    relDone,      \* TRUE once cleanupOldReleases has run
    \* ---- artifact names (pkg/utils: ExtractDeploymentID)
    zipPath,      \* the --zip argument: [dir, stem, ext]
    idRes,        \* what the command made of it: [done, id, err, touched]
    \* ---- goroutines of export-all: the mutex and the process-wide stdout
    gPc,          \* per worker: where it is in exportSingleEnvironment
    gStatus,      \* per worker: the Status of its record in ExportProgress
    mu,           \* who holds ExportProgress.mu: 0 nobody, or DisplayG
    osStdout,     \* os.Stdout: 0 the real output, i the pipe of worker i
    oldStdout,    \* per worker: the oldStdout it saved
    pipeW,        \* per worker: write end of its pipe, none / open / closed
    pipeFill,     \* per worker: units of output waiting in its pipe
    cleanOut,     \* per worker: units CleanExportedFiles still has to print
    tPc,          \* the display goroutine: idle / render / stopped
    tLeft,        \* units the current render still has to print
    jPc,          \* exportSingleProject: wait / closed / returned
    finalOut      \* where the final DisplayStatus went: none / stdout / lost

diffVars == <<zipFile, dirTree, extracted, mutated, cmp>>
consVars == <<cEnvs, cMods, cOrig, consTree, moduleRegistry, conflictCount, cLogged,
              cErrs, cIdx, cPc>>

expVars == <<eEnvs, completed, failed, inProgress, lastLines, skipFailed,
             wPc, wFailAt, wErr, dPc, mPc, postEnvs, mResult, projFiles>>

wsVars == <<ws, zips, latest, latestAlt, matArt, runs, lastRun>>

cleanVars == <<cfgTree, cfgOrig, cfgPrev, cleanRuns, cleanRet>>

relVars == <<relDirs, relZips, relKeep, relBefore, relDone>>

idVars == <<zipPath, idRes>>

stdVars == <<gPc, gStatus, mu, osStdout, oldStdout, pipeW, pipeFill, cleanOut,
             tPc, tLeft, jPc, finalOut>>

vars == <<diffVars, consVars, expVars, wsVars, cleanVars, relVars, idVars, stdVars>>

\* What the actions of one component leave alone.
notDiff  == <<consVars, expVars, wsVars, cleanVars, relVars, idVars, stdVars>>
notCons  == <<diffVars, expVars, wsVars, cleanVars, relVars, idVars, stdVars>>
notExp   == <<diffVars, consVars, wsVars, cleanVars, relVars, idVars, stdVars>>
notWs    == <<diffVars, consVars, expVars, cleanVars, relVars, idVars, stdVars>>
notClean == <<diffVars, consVars, expVars, wsVars, relVars, idVars, stdVars>>
notRel   == <<diffVars, consVars, expVars, wsVars, cleanVars, idVars, stdVars>>
notId    == <<diffVars, consVars, expVars, wsVars, cleanVars, relVars, stdVars>>
notStd   == <<diffVars, consVars, expVars, wsVars, cleanVars, relVars, idVars>>

\* A directory tree is a function from the paths of its files to their
\* contents; these are the file operations the model uses.
HasFile(tree, p)   == p \in DOMAIN tree
WriteFile(tree, p, c) == (p :> c) @@ tree
RemoveFiles(tree, ps) == [q \in (DOMAIN tree) \ ps |-> tree[q]]
NoFiles == [q \in {} |-> 0]

(***************************************************************************)
(*                          CONTENT DIFFER                                 *)
(***************************************************************************)

\* Bounds of the differ model.
MaxEntries == 2      \* entries in the archive
MaxContent == 2      \* distinct file contents 1..MaxContent

Contents == 1..MaxContent

\* Entry names as the archive stores them, as sequences of path segments.
\* <<".", "a">> is the name "./a": archive/zip hands names out as stored.
EntryNames == { <<"a">>, <<"b">>, <<".", "a">>, <<"d", "a">> }

\* filepath.Clean on a relative name without "..": "." segments vanish.
CleanPath(name) == SelectSeq(name, LAMBDA s : s # ".")

\* The paths a walk of the directory can meet.
DirPaths == { CleanPath(n) : n \in EntryNames } \cup { <<"x">> }

ZipEntries == [name : EntryNames, content : Contents, isDir : BOOLEAN]

RECURSIVE SeqsUpTo(_, _)
SeqsUpTo(S, n) ==
    IF n = 0 THEN { <<>> }
    ELSE LET shorter == SeqsUpTo(S, n - 1)
         IN  shorter \cup { Append(s, e) : s \in { t \in shorter : Len(t) = n - 1 }, e \in S }

\* sha256 of a content: collision free on the contents of the model.
hashFile(c) == <<"sha256", c>>

\* ExtractZip: every file entry, in archive order, is written (truncating)
\* to filepath.Join(destPath, file.Name); directory entries only make dirs.
RECURSIVE ExtractZip(_, _)
ExtractZip(zip, tree) ==
    IF zip = <<>> THEN tree
    ELSE LET e == Head(zip)
             t == IF e.isDir THEN tree
                  ELSE WriteFile(tree, CleanPath(e.name), e.content)
         IN  ExtractZip(Tail(zip), t)

\* zipFiles: map from the stored name to the entry (the last one wins).
ZipFileNames(zip) == { zip[i].name : i \in { j \in 1..Len(zip) : ~zip[j].isDir } }

ZipFileContent(zip, name) ==
    LET idx == { i \in 1..Len(zip) : ~zip[i].isDir /\ zip[i].name = name }
        last == CHOOSE i \in idx : \A j \in idx : j <= i
    IN  zip[last].content

\* dirFiles: the walk keys each regular file by filepath.Rel(dirPath, path),
\* a clean path, and hashes it only if zipFiles has that very key.
DirFileKeys(zip, tree) ==
    { p \in DOMAIN tree : p \in ZipFileNames(zip) }

\* The comparison proper (no I/O error).
ZipDiffers(zip, tree) ==
    \E name \in ZipFileNames(zip) :
        \/ name \notin DirFileKeys(zip, tree)
        \/ hashFile(ZipFileContent(zip, name)) # hashFile(tree[name])

\* IsZipDifferentFromDir with the I/O fault the run meets:
\* "open" (zip.OpenReader), "walk" (filepath.Walk / hashFile), "hash"
\* (hashZipFile; only reached when the archive lists a file), "none".
IsZipDifferentFromDirBroken(zip, tree, fault) ==
    CASE fault = "open" -> [done |-> TRUE, different |-> TRUE, err |-> TRUE]
      [] fault = "walk" -> [done |-> TRUE, different |-> TRUE, err |-> TRUE]
      [] fault = "hash" /\ ZipFileNames(zip) # {}
                        -> [done |-> TRUE, different |-> FALSE, err |-> TRUE]
      [] OTHER -> [done |-> TRUE, different |-> ZipDiffers(zip, tree), err |-> FALSE]

IsZipDifferentFromDir(zip, tree, fault) ==
    CASE fault = "open" -> [done |-> TRUE, different |-> TRUE, err |-> TRUE]
      [] fault = "walk" -> [done |-> TRUE, different |-> TRUE, err |-> TRUE]
      [] fault = "hash" /\ ZipFileNames(zip) # {}
                        -> [done |-> TRUE, different |-> TRUE, err |-> TRUE]
      [] OTHER -> [done |-> TRUE, different |-> ZipDiffers(zip, tree), err |-> FALSE]

NoCmp == [done |-> FALSE, different |-> FALSE, err |-> FALSE]

Faults == { "none", "open", "walk", "hash" }

DiffIdle ==
    /\ zipFile = <<>>
    /\ dirTree = NoFiles
    /\ extracted = FALSE
    /\ mutated = {}
    /\ cmp = NoCmp

ConsIdle ==
    /\ cEnvs = <<>>
    /\ cMods = <<>>
    /\ cOrig = <<>>
    /\ consTree = NoFiles
    /\ moduleRegistry = {}
    /\ conflictCount = 0
    /\ cErrs = {}
    /\ cLogged = {}
    /\ cIdx = 0
    /\ cPc = "idle"

ExpIdle ==
    /\ eEnvs = <<>>
    /\ completed = 0
    /\ failed = 0
    /\ inProgress = 0
    /\ lastLines = 0
    /\ skipFailed = FALSE
    /\ wPc = <<>>
    /\ wFailAt = <<>>
    /\ wErr = <<>>
    /\ dPc = "idle"
    /\ mPc = "idle"
    /\ postEnvs = <<>>
    /\ mResult = "none"
    /\ projFiles = {}

NoRun ==
    [cmd |-> "none", mode |-> "none", art |-> "none", resp |-> "n",
     prunedDir |-> FALSE, prunedZip |-> FALSE,
     wsExisted |-> FALSE, prompted |-> FALSE,
     sameArt |-> FALSE, extracted |-> FALSE,
     selState |-> "none", matState |-> "none", latestBefore |-> "none",
     usedState |-> "none", result |-> "none",
     carryFailed |-> FALSE, leftWorkDir |-> FALSE]

WsIdle ==
    /\ ws = NoFiles
    /\ zips = {}
    /\ latest = "none"
    /\ latestAlt = "none"
    /\ matArt = NoFiles
    /\ runs = 0
    /\ lastRun = NoRun

\* A file of HCL blocks, a JSON file, and the tree with nothing in it.
NoHcl == [exists |-> FALSE, parses |-> FALSE, blocks |-> <<>>]

NoJson == [exists |-> FALSE, parses |-> FALSE, keys |-> {}]

NoState == [exists |-> FALSE, parses |-> FALSE, version |-> FALSE,
            resources |-> [arr |-> FALSE, items |-> <<>>]]

NoL2 == [exists |-> FALSE, parses |-> FALSE, blocks |-> NoFiles]

NoCfg == [l2main |-> NoL2, modVars |-> [exists |-> FALSE, parses |-> FALSE, vars |-> {}],
          outputs |-> NoHcl, plain |-> {}, tfstate |-> NoState, inputJson |-> NoJson]

CleanIdle ==
    /\ cfgTree = NoCfg
    /\ cfgOrig = NoCfg
    /\ cfgPrev = NoCfg
    /\ cleanRuns = 0
    /\ cleanRet = "none"

RelIdle ==
    /\ relDirs = {}
    /\ relZips = {}
    /\ relKeep = {}
    /\ relBefore = [dirs |-> {}, zips |-> {}, keep |-> {}]
    /\ relDone = FALSE

NoStem == [chars |-> "other", len |-> 0]

NoId == [done |-> FALSE, id |-> NoStem, err |-> FALSE, touched |-> FALSE]

IdIdle ==
    /\ zipPath = [dir |-> "", stem |-> NoStem, ext |-> ""]
    /\ idRes = NoId

StdIdle ==
    /\ gPc = <<>>
    /\ gStatus = <<>>
    /\ mu = 0
    /\ osStdout = 0
    /\ oldStdout = <<>>
    /\ pipeW = <<>>
    /\ pipeFill = <<>>
    /\ cleanOut = <<>>
    /\ tPc = "idle"
    /\ tLeft = 0
    /\ jPc = "idle"
    /\ finalOut = "none"

InitDiff ==
    /\ zipFile \in SeqsUpTo(ZipEntries, MaxEntries)
    /\ dirTree \in { NoFiles, WriteFile(NoFiles, <<"x">>, 1),
                     WriteFile(NoFiles, <<"a">>, 2) }
    /\ extracted = FALSE
    /\ mutated = {}
    /\ cmp = NoCmp
    /\ ConsIdle
    /\ ExpIdle
    /\ WsIdle
    /\ CleanIdle
    /\ RelIdle
    /\ IdIdle
    /\ StdIdle

\* utils.ExtractZip(zipFile, dirTree)
DoExtract ==
    /\ ~extracted
    /\ dirTree' = ExtractZip(zipFile, dirTree)
    /\ extracted' = TRUE
    /\ mutated' = {}
    /\ cmp' = NoCmp
    /\ UNCHANGED <<zipFile, notDiff>>

\* Somebody changes the content of one file of the directory.
DoMutate(p, c) ==
    /\ extracted
    /\ mutated = {}
    /\ HasFile(dirTree, p)
    /\ dirTree[p] # c
    /\ dirTree' = WriteFile(dirTree, p, c)
    /\ mutated' = {p}
    /\ cmp' = NoCmp
    /\ UNCHANGED <<zipFile, extracted, notDiff>>

\* utils.IsZipDifferentFromDir(zipFile, dirTree)
DoCompare(fault) ==
    /\ ~cmp.done
    /\ cmp' = IsZipDifferentFromDir(zipFile, dirTree, fault)
    /\ UNCHANGED <<zipFile, dirTree, extracted, mutated, notDiff>>

NextDiff ==
    \/ DoExtract
    \/ \E p \in DirPaths, c \in Contents : DoMutate(p, c)
    \/ \E fault \in Faults : DoCompare(fault)

SpecDiff == InitDiff /\ [][NextDiff]_vars

\* Paths the archive lists as files, as the extraction resolves them.
ListedPaths(zip) == { CleanPath(n) : n \in ZipFileNames(zip) }

Compared == cmp.done /\ ~cmp.err

\* C4: a directory obtained by extracting the archive does not differ from
\* it, and changing the content of one file that the archive lists and the
\* directory holds makes it differ.
C4_IdempotentExtraction ==
    (extracted /\ Compared) =>
        /\ (mutated = {} => cmp.different = FALSE)
        /\ (\A p \in mutated : p \in ListedPaths(zipFile) => cmp.different = TRUE)

\* C21: whenever IsZipDifferentFromDir returns an error (opening the
\* archive, walking the directory, hashing a file), it returns different =
\* TRUE with it, never different = FALSE.
C21_DifferErrorPolicy ==
    (cmp.done /\ cmp.err) => cmp.different = TRUE

\* The comparison of an archive with the directory extracted from it, which
\* holds every file of the archive unchanged, met an I/O error while hashing
\* an entry of the archive and answered "different".
C21_Witness ==
    /\ extracted
    /\ mutated = {}
    /\ ZipFileNames(zipFile) # {}
    /\ ~ZipDiffers(zipFile, dirTree)
    /\ cmp.done
    /\ cmp.err
    /\ cmp.different

(***************************************************************************)
(*                        MODULE CONSOLIDATOR                              *)
(***************************************************************************)

\* Bound of the consolidator model.
MaxConsEnvs == 2     \* environments handed to consolidateModules

\* Environment names, in the order the project lists them.
EnvNames == << "e1", "e2", "e3", "e4", "e5", "e6" >>

\* The files an environment's modules/ subtree can hold, in the lexical
\* order filepath.Walk visits them.
ConsPaths == << "db/main.tf", "db/notes.md" >>

\* Only .tf and .tf.json files get their references rewritten.
IsTfFile(p) == p = "db/main.tf"

\* A file content: the text apart from the deployment context reference,
\* and the form of that reference ("./" is ./deploymentcontext.json,
\* "../" is ../deploymentcontext.json).
ModContents(p) ==
    IF IsTfFile(p) THEN [id : {"v1", "v2"}, ref : {"./", "../"}]
    ELSE { [id |-> "v1", ref |-> "../"] }

\* What os.Create followed by a failed io.Copy leaves behind.
Truncated == [id |-> "partial", ref |-> "./"]

\* All trees over ConsPaths.
ModTrees ==
    { t \in UNION { [ps -> UNION { ModContents(p) : p \in ps }] :
                        ps \in SUBSET { ConsPaths[k] : k \in 1..Len(ConsPaths) } } :
        \A p \in DOMAIN t : t[p] \in ModContents(p) }

NoMods == [exists |-> FALSE, files |-> NoFiles]

ModDirs == { NoMods } \cup [exists : {TRUE}, files : ModTrees]

areFilesIdentical(c1, c2) == c1 = c2

\* updateDeploymentContextRef, three times: every older form of the
\* reference becomes ./deploymentcontext.json.
updateDeploymentContextRef(c) ==
    IF c.ref = "../" THEN [c EXCEPT !.ref = "./"] ELSE c

ConsFaults ==
    { [kind |-> "none", at |-> ""] } \cup
    [kind : {"walk", "copyOpen", "copyWrite"},
     at : { ConsPaths[k] : k \in 1..Len(ConsPaths) }]

\* A walk callback that, on a path already registered, overwrites the copy.
ConsFileKeepLast(p, c, st, fault) ==
    IF fault.kind = "walk" /\ fault.at = p THEN [st EXCEPT !.err = TRUE]
    ELSE [st EXCEPT !.tree = WriteFile(@, p, c),
                    !.reg = @ \cup {p},
                    !.conf = @ + (IF p \in st.reg /\ ~areFilesIdentical(c, st.tree[p])
                                  THEN 1 ELSE 0),
                    !.logged = @ \cup (IF p \in st.reg /\ ~areFilesIdentical(c, st.tree[p])
                                       THEN {p} ELSE {})]

\* The walk callback on one regular file of an environment's modules/.
\* st = [tree, reg, conf, logged, err]: consolidated tree, registry,
\* conflicts so far, the paths a conflict was logged for in this walk, and
\* whether the callback returned an error (which ends the walk).
ConsFile(p, c, st, fault) ==
    IF fault.kind = "walk" /\ fault.at = p THEN [st EXCEPT !.err = TRUE]
    ELSE IF p \in st.reg
    THEN IF areFilesIdentical(c, st.tree[p]) THEN st
         ELSE [st EXCEPT !.conf = @ + 1, !.logged = @ \cup {p}]
    ELSE IF fault.kind = "copyOpen" /\ fault.at = p
    THEN [st EXCEPT !.err = TRUE]
    ELSE IF fault.kind = "copyWrite" /\ fault.at = p
    THEN [st EXCEPT !.err = TRUE, !.tree = WriteFile(@, p, Truncated)]
    ELSE [st EXCEPT !.tree = WriteFile(@, p, c), !.reg = @ \cup {p}]

\* filepath.Walk over the files of one environment, from the k-th path on.
RECURSIVE ConsWalk(_, _, _, _)
ConsWalk(files, st, fault, k) ==
    IF k > Len(ConsPaths) \/ st.err THEN st
    ELSE LET p == ConsPaths[k]
         IN  IF ~HasFile(files, p) THEN ConsWalk(files, st, fault, k + 1)
             ELSE ConsWalk(files, ConsFile(p, files[p], st, fault), fault, k + 1)

\* The final walk of the consolidated tree.
RewriteRefs(tree) ==
    [p \in DOMAIN tree |->
        IF IsTfFile(p) THEN updateDeploymentContextRef(tree[p]) ELSE tree[p]]

InitCons ==
    /\ \E n \in 1..MaxConsEnvs :
         /\ \E st \in [1..n -> {"complete", "failed"}] :
                cEnvs = [i \in 1..n |-> [name |-> EnvNames[i], status |-> st[i]]]
         /\ cMods \in [1..n -> ModDirs]
    /\ cOrig = cMods
    /\ consTree \in { NoFiles,
                      WriteFile(NoFiles, "db/main.tf", [id |-> "v2", ref |-> "./"]) }
    /\ moduleRegistry = {}
    /\ conflictCount = 0
    /\ cErrs = {}
    /\ cLogged = {}
    /\ cIdx = 0
    /\ cPc = "start"
    /\ DiffIdle
    /\ ExpIdle
    /\ WsIdle
    /\ CleanIdle
    /\ RelIdle
    /\ IdIdle
    /\ StdIdle

\* consolidateModules, up to the loop: MkdirAll, fresh registry and count.
ConsStart ==
    /\ cPc = "start"
    /\ moduleRegistry' = {}
    /\ conflictCount' = 0
    /\ cIdx' = 1
    /\ cPc' = "loop"
    /\ UNCHANGED <<cEnvs, cMods, cOrig, consTree, cErrs, cLogged, notCons>>

\* A loop that returns the walk's error instead of printing it.
ConsEnvAbort(fault) ==
    /\ cPc = "loop"
    /\ cIdx <= Len(cEnvs)
    /\ fault.kind # "none" => cErrs = {}
    /\ IF cEnvs[cIdx].status # "complete" \/ ~cMods[cIdx].exists
       THEN /\ fault.kind = "none"
            /\ cPc' = cPc
            /\ UNCHANGED <<cMods, consTree, moduleRegistry, conflictCount, cErrs,
                           cLogged>>
       ELSE LET st0 == [tree |-> consTree, reg |-> moduleRegistry,
                        conf |-> conflictCount, logged |-> {}, err |-> FALSE]
                st  == ConsWalk(cMods[cIdx].files, st0, fault, 1)
            IN  /\ fault.kind # "none" => st.err
                /\ consTree' = st.tree
                /\ moduleRegistry' = st.reg
                /\ conflictCount' = st.conf
                /\ cLogged' = cLogged \cup { <<cIdx, p>> : p \in st.logged }
                /\ cErrs' = IF st.err THEN cErrs \cup {cIdx} ELSE cErrs
                /\ cPc' = IF st.err THEN "failed" ELSE cPc
                /\ cMods' = IF st.err THEN cMods ELSE [cMods EXCEPT ![cIdx] = NoMods]
    /\ cIdx' = cIdx + 1
    /\ UNCHANGED <<cEnvs, cOrig, notCons>>

\* One iteration of the loop over the environments: skip, or walk the
\* environment's modules/ and then remove it whatever the walk returned.
ConsEnv(fault) ==
    /\ cPc = "loop"
    /\ cIdx <= Len(cEnvs)
    /\ fault.kind # "none" => cErrs = {}
    /\ IF cEnvs[cIdx].status # "complete" \/ ~cMods[cIdx].exists
       THEN /\ fault.kind = "none"
            /\ UNCHANGED <<cMods, consTree, moduleRegistry, conflictCount, cErrs,
                           cLogged>>
       ELSE LET st0 == [tree |-> consTree, reg |-> moduleRegistry,
                        conf |-> conflictCount, logged |-> {}, err |-> FALSE]
                st  == ConsWalk(cMods[cIdx].files, st0, fault, 1)
            IN  /\ fault.kind # "none" => st.err
                /\ consTree' = st.tree
                /\ moduleRegistry' = st.reg
                /\ conflictCount' = st.conf
                /\ cLogged' = cLogged \cup { <<cIdx, p>> : p \in st.logged }
                /\ cErrs' = IF st.err THEN cErrs \cup {cIdx} ELSE cErrs
                /\ cMods' = [cMods EXCEPT ![cIdx] = NoMods]
    /\ cIdx' = cIdx + 1
    /\ UNCHANGED <<cEnvs, cOrig, cPc, notCons>>

\* After the loop: the reference rewrite over the consolidated tree.
ConsRewrite ==
    /\ cPc = "loop"
    /\ cIdx > Len(cEnvs)
    /\ consTree' = RewriteRefs(consTree)
    /\ cPc' = "done"
    /\ UNCHANGED <<cEnvs, cMods, cOrig, moduleRegistry, conflictCount, cErrs,
                   cLogged, cIdx, notCons>>

NextCons ==
    \/ ConsStart
    \/ \E fault \in ConsFaults : ConsEnv(fault)
    \/ ConsRewrite

SpecCons == InitCons /\ [][NextCons]_vars

\* The successful environments that had a file at p when the call began.
Contributors(p) ==
    { i \in 1..Len(cEnvs) : /\ cEnvs[i].status = "complete"
                            /\ cOrig[i].exists
                            /\ HasFile(cOrig[i].files, p) }

FirstContributor(p) == CHOOSE i \in Contributors(p) : \A j \in Contributors(p) : i <= j

\* Later contributors whose bytes differ from the first one's.
ConflictPairs ==
    { ip \in (1..Len(cEnvs)) \X { ConsPaths[k] : k \in 1..Len(ConsPaths) } :
        /\ ip[1] \in Contributors(ip[2])
        /\ ip[1] # FirstContributor(ip[2])
        /\ cOrig[ip[1]].files[ip[2]] # cOrig[FirstContributor(ip[2])].files[ip[2]] }

ConsDone == cPc = "done" /\ cErrs = {}

\* C10: after a consolidateModules run without I/O
\* failure, every path contributed by successful environments holds one
\* file, the first contributor's with its deployment context reference
\* rewritten to ./deploymentcontext.json when it is a .tf file; the
\* conflict count is the number of later contributions whose bytes differ
\* from the first one's (0 for identical bytes, 1 for two differing files).
C10_ConsolidationDeterminism ==
    ConsDone =>
        /\ \A k \in 1..Len(ConsPaths) :
             LET p == ConsPaths[k]
             IN  Contributors(p) # {} =>
                   /\ HasFile(consTree, p)
                   /\ consTree[p] =
                        IF IsTfFile(p)
                        THEN updateDeploymentContextRef(cOrig[FirstContributor(p)].files[p])
                        ELSE cOrig[FirstContributor(p)].files[p]
        /\ conflictCount = Cardinality(ConflictPairs)

\* Two successful environments contributed differing bytes at one path and
\* the run counted that one conflict.
C10_Witness ==
    /\ ConsDone
    /\ \E k \in 1..Len(ConsPaths) :
         /\ Cardinality(Contributors(ConsPaths[k])) = 2
         /\ \E ip \in ConflictPairs : ip[2] = ConsPaths[k]
    /\ conflictCount = 1

\* The successful environments the loop has dealt with, while the loop runs
\* (before the final reference rewrite).
Consolidated ==
    { i \in 1..Len(cEnvs) : /\ cPc = "loop"
                            /\ i < cIdx
                            /\ cEnvs[i].status = "complete"
                            /\ cOrig[i].exists }

\* C11: consolidation loses no module file without a conflict: once the
\* modules/ subtree of a successful environment has been removed, every file
\* it held for which no conflict was logged is in the consolidated tree, at
\* the same relative path with the same content, also when a walk or copy
\* step failed.
C11_NoModuleFileLost ==
    \A i \in Consolidated :
        /\ ~cMods[i].exists
        /\ \A p \in DOMAIN cOrig[i].files :
              <<i, p>> \notin cLogged =>
                  /\ HasFile(consTree, p)
                  /\ consTree[p] = cOrig[i].files[p]

\* The same, for the runs in which no walk returned an error.
C11_NoLossWithoutFailure ==
    cErrs = {} => C11_NoModuleFileLost

\* consolidateModules has returned.
ConsReturned == cPc \notin { "start", "loop" }

\* The files of environment i for which no conflict was logged are in the
\* consolidated tree; rewritten says whether the final reference rewrite
\* has run.
FilesConsolidated(i, rewritten) ==
    \A p \in DOMAIN cOrig[i].files :
        <<i, p>> \notin cLogged =>
            /\ HasFile(consTree, p)
            /\ consTree[p] = IF rewritten /\ IsTfFile(p)
                             THEN updateDeploymentContextRef(cOrig[i].files[p])
                             ELSE cOrig[i].files[p]

MaxEnvs == 3         \* environments of the project

\* Cluster ids of the environments, as the control plane lists them.
EnvIDs == << "c1", "c2", "c3", "c4", "c5", "c6" >>

\* The ExportProgress fields the status updates touch.
Ep == [envs |-> eEnvs, completed |-> completed, failed |-> failed,
       inProgress |-> inProgress]

\* The first environment with this id, 0 if there is none.
IndexOfID(envs, envID) ==
    LET idxs == { i \in 1..Len(envs) : envs[i].id = envID }
    IN  IF idxs = {} THEN 0 ELSE CHOOSE i \in idxs : \A j \in idxs : i <= j

IsTerminal(status) == status = "complete" \/ status = "failed"

\* ExportProgress.UpdateStatus
UpdateStatus(ep, envID, status) ==
    LET i == IndexOfID(ep.envs, envID)
    IN  IF i = 0 THEN ep
        ELSE LET oldStatus == ep.envs[i].status
                 toTerminal == ~IsTerminal(oldStatus) /\ IsTerminal(status)
                 leavesPending == /\ ~toTerminal
                                  /\ oldStatus = "pending"
                                  /\ status # "pending"
                                  /\ ~IsTerminal(status)
             IN  [envs |-> [ep.envs EXCEPT ![i].status = status],
                  completed |-> ep.completed +
                      (IF toTerminal /\ status = "complete" THEN 1 ELSE 0),
                  failed |-> ep.failed +
                      (IF toTerminal /\ status # "complete" THEN 1 ELSE 0),
                  inProgress |-> ep.inProgress
                      - (IF toTerminal /\ oldStatus # "pending" THEN 1 ELSE 0)
                      + (IF leavesPending THEN 1 ELSE 0)]

\* ExportProgress.SetError: status and error, the counters stay.
SetError(ep, envID, err) ==
    LET i == IndexOfID(ep.envs, envID)
    IN  IF i = 0 THEN ep
        ELSE [ep EXCEPT !.envs = [ep.envs EXCEPT ![i].status = "failed",
                                                 ![i].err = err]]

\* A filter that lets every environment through.
AllEnvs(envs) == [k \in 1..Len(envs) |-> k]

\* postProcessExports: the environments whose status is "complete", in
\* order (as indices into the slice).
RECURSIVE SuccessfulEnvs(_)
SuccessfulEnvs(envs) ==
    IF envs = <<>> THEN <<>>
    ELSE LET n == Len(envs)
             front == SuccessfulEnvs(SubSeq(envs, 1, n - 1))
         IN  IF envs[n].status = "complete" THEN Append(front, n) ELSE front

\* An error value is the sequence of the parts of its text; <<>> is nil.
NoErr == [remote |-> "", err |-> <<>>]

\* Messages an error log of a failed export can carry.
RemoteMessages == { "quota exceeded", "disk 100% full" }

\* fmt.Sprintf(format) without arguments: a % in the text is read as a verb.
Sprintf(format) ==
    IF format = "disk 100% full" THEN "disk 100%!f(MISSING)ull" ELSE format

\* fmt.Errorf(errorMsg), the message being the format.
Errorf(format) == <<Sprintf(format)>>

\* fmt.Errorf(prefix + "%w", err)
Wrap(prefix, msg) == <<prefix, msg>>

\* What TriggerTerraformExport can fail with.
NotRunning ==
    "Cannot trigger terraform export on an environment that is not in a running state"

TriggerFailures == { NotRunning, "[500] internal server error" }

\* TriggerOrWaitForExport on a failed TriggerTerraformExport.
TriggerError(errStr) ==
    IF errStr = NotRunning THEN <<NotRunning>> ELSE <<"Failed to trigger export">>

\* WaitForExportCompletion on status FAILED with these error logs.
ExportFailedError(errorLogs) ==
    Errorf(IF Len(errorLogs) > 0 THEN errorLogs[1] ELSE "export failed")

\* showFinalSummary: the lines under "Failed exports".
showFinalSummary(envs) ==
    { [name |-> envs[k].name, err |-> envs[k].err] :
        k \in { j \in 1..Len(envs) : envs[j].status = "failed" /\ envs[j].err # <<>> } }

\* exportEnvironmentsParallel returns nil whatever the workers met.
exportEnvironmentsParallel == "nil"

InitExport ==
    /\ \E n \in 1..MaxEnvs :
         /\ eEnvs = [i \in 1..n |-> [id |-> EnvIDs[i], name |-> EnvNames[i],
                                     status |-> "pending", err |-> <<>>,
                                     outputPath |-> ""]]
         /\ wPc = [i \in 1..n |-> "start"]
         /\ wFailAt = [i \in 1..n |-> "none"]
         /\ wErr = [i \in 1..n |-> NoErr]
    /\ completed = 0
    /\ failed = 0
    /\ inProgress = 0
    /\ lastLines = 0
    /\ skipFailed \in BOOLEAN
    /\ dPc = "running"
    /\ mPc = "wait"
    /\ postEnvs = <<>>
    /\ mResult = "none"
    /\ projFiles = {}
    /\ DiffIdle
    /\ ConsIdle
    /\ WsIdle
    /\ CleanIdle
    /\ RelIdle
    /\ IdIdle
    /\ StdIdle

\* The worker of environment i calls UpdateStatus and moves on to pc.
WorkerUpdate(i, status, pc) ==
    LET ep == UpdateStatus(Ep, eEnvs[i].id, status)
    IN  /\ eEnvs' = ep.envs
        /\ completed' = ep.completed
        /\ failed' = ep.failed
        /\ inProgress' = ep.inProgress
        /\ wPc' = [wPc EXCEPT ![i] = pc]

expRest0 == <<lastLines, skipFailed, dPc, mPc, postEnvs, mResult, notExp>>

expRest == <<expRest0, projFiles>>

\* The worker of environment i meets a failure at a step: the control
\* plane's message, if any, and the error that goes back to the goroutine.
WorkerFails(i, step, remote, err) ==
    /\ wPc' = [wPc EXCEPT ![i] = "error"]
    /\ wFailAt' = [wFailAt EXCEPT ![i] = step]
    /\ wErr' = [wErr EXCEPT ![i] = [remote |-> remote, err |-> err]]

\* The directory ProcessExportedEnvironment extracts an environment into,
\* and the one the post-processing steps look for it in, below projectDir.
WorkerEnvDir(name) == <<"environments", name>>

PostEnvDir(name) == <<name>>

\* The files of an exported archive that outlive CleanExportedFiles.
ArchiveFiles == { <<"tfexport", "main.tf">>, <<"modules", "db", "main.tf">> }

IsUnder(p, dir) == Len(p) > Len(dir) /\ SubSeq(p, 1, Len(dir)) = dir

Rel(p, dir) == SubSeq(p, Len(dir) + 1, Len(p))

\* restructureTfExport: what lies in <env>/tfexport moves up into <env>.
restructureTfExport(files, names) ==
    { IF \E n \in names : IsUnder(p, PostEnvDir(n) \o <<"tfexport">>)
      THEN <<p[1]>> \o Rel(p, <<p[1], "tfexport">>)
      ELSE p : p \in files }

\* consolidateModules, as far as the places of the files go: what lies in
\* <env>/modules ends up in <project>/modules.
consolidateModules(files, names) ==
    { IF \E n \in names : IsUnder(p, PostEnvDir(n) \o <<"modules">>)
      THEN <<"modules">> \o Rel(p, <<p[1], "modules">>)
      ELSE p : p \in files }

\* postProcessExports on the successful environments.
postProcessExports(files, envs) ==
    LET names == { envs[i].name : i \in { k \in 1..Len(envs) :
                                              envs[k].status = "complete" } }
    IN  consolidateModules(restructureTfExport(files, names), names)

\* exportSingleEnvironment -> ProcessExportedEnvironment: "Starting export
\* process..."
WStart(i) ==
    /\ wPc[i] = "start"
    /\ WorkerUpdate(i, "triggering", "lookup")
    /\ UNCHANGED <<wFailAt, wErr, expRest>>

\* TriggerOrWaitForExport: GetDeployments, then "waiting" on a running
\* export or "triggering" for a new one.
WLookup(i, res) ==
    /\ wPc[i] = "lookup"
    /\ CASE res = "error" ->
              /\ WorkerFails(i, "lookup", "connection refused",
                             Wrap("could not get deployments: ", "connection refused"))
              /\ UNCHANGED <<eEnvs, completed, failed, inProgress>>
         [] res = "running" ->
              /\ WorkerUpdate(i, "waiting", "poll")
              /\ UNCHANGED <<wFailAt, wErr>>
         [] OTHER ->
              /\ WorkerUpdate(i, "triggering", "trigger")
              /\ UNCHANGED <<wFailAt, wErr>>
    /\ UNCHANGED expRest

\* TriggerTerraformExport
WTrigger(i, ok) ==
    /\ wPc[i] = "trigger"
    /\ IF ok
       THEN /\ wPc' = [wPc EXCEPT ![i] = "poll"]
            /\ UNCHANGED <<wFailAt, wErr>>
       ELSE \E errStr \in TriggerFailures :
                WorkerFails(i, "trigger", errStr, TriggerError(errStr))
    /\ UNCHANGED <<eEnvs, completed, failed, inProgress, expRest>>

\* A poll that reports a job still in progress as "triggering".
WPollRetrigger(i, res) ==
    /\ wPc[i] = "poll"
    /\ CASE res = "IN_PROGRESS" ->
              /\ WorkerUpdate(i, "triggering", "poll")
              /\ UNCHANGED <<wFailAt, wErr>>
         [] res = "SUCCEEDED" ->
              /\ wPc' = [wPc EXCEPT ![i] = "download"]
              /\ UNCHANGED <<eEnvs, completed, failed, inProgress, wFailAt, wErr>>
         [] OTHER ->
              /\ WorkerFails(i, "poll", "gateway timeout",
                             Wrap("could not get deployment status: ", "gateway timeout"))
              /\ UNCHANGED <<eEnvs, completed, failed, inProgress>>
    /\ UNCHANGED expRest

\* WaitForExportCompletion: one poll of the remote job.
WPoll(i, res) ==
    /\ wPc[i] = "poll"
    /\ CASE res = "IN_PROGRESS" ->
              /\ WorkerUpdate(i, "waiting", "poll")
              /\ UNCHANGED <<wFailAt, wErr>>
         [] res = "SUCCEEDED" ->
              /\ wPc' = [wPc EXCEPT ![i] = "download"]
              /\ UNCHANGED <<eEnvs, completed, failed, inProgress, wFailAt, wErr>>
         [] res = "FAILED" ->
              /\ \E errorLogs \in { <<>> } \cup { <<m>> : m \in RemoteMessages } :
                    WorkerFails(i, "poll",
                                IF errorLogs = <<>> THEN "" ELSE errorLogs[1],
                                ExportFailedError(errorLogs))
              /\ UNCHANGED <<eEnvs, completed, failed, inProgress>>
         [] OTHER ->
              /\ WorkerFails(i, "poll", "gateway timeout",
                             Wrap("could not get deployment status: ", "gateway timeout"))
              /\ UNCHANGED <<eEnvs, completed, failed, inProgress>>
    /\ UNCHANGED expRest

\* DownloadExport: "downloading", then the transfer.
WDownload(i, ok) ==
    /\ wPc[i] = "download"
    /\ WorkerUpdate(i, "downloading", IF ok THEN "extract" ELSE "error")
    /\ wFailAt' = [wFailAt EXCEPT ![i] = IF ok THEN "none" ELSE "download"]
    /\ wErr' = [wErr EXCEPT ![i] = IF ok THEN NoErr
                                   ELSE [remote |-> "", err |-> <<"Download failed">>]]
    /\ UNCHANGED expRest

\* "extracting", then ExtractZip.
WExtract(i, ok) ==
    /\ wPc[i] = "extract"
    /\ WorkerUpdate(i, "extracting", IF ok THEN "clean" ELSE "error")
    /\ wFailAt' = [wFailAt EXCEPT ![i] = IF ok THEN "none" ELSE "extract"]
    /\ wErr' = [wErr EXCEPT ![i] = IF ok THEN NoErr
                                   ELSE [remote |-> "", err |-> <<"Failed to extract archive">>]]
    /\ projFiles' = IF ok
                    THEN projFiles \cup { WorkerEnvDir(eEnvs[i].name) \o f :
                                            f \in ArchiveFiles }
                    ELSE projFiles
    /\ UNCHANGED expRest0

\* "cleaning", then CleanExportedFiles, whose error is dropped.
WClean(i, cleanOk) ==
    /\ wPc[i] = "clean"
    /\ WorkerUpdate(i, "cleaning", "complete")
    /\ UNCHANGED <<wFailAt, wErr, expRest>>

\* The archive is removed and the environment marked "complete".
WComplete(i) ==
    /\ wPc[i] = "complete"
    /\ WorkerUpdate(i, "complete", "path")
    /\ UNCHANGED <<wFailAt, wErr, expRest>>

\* Back in exportSingleEnvironment: env.OutputPath, then wg.Done.
WSetPath(i) ==
    /\ wPc[i] = "path"
    /\ eEnvs' = [eEnvs EXCEPT ![i].outputPath = "set"]
    /\ wPc' = [wPc EXCEPT ![i] = "done"]
    /\ UNCHANGED <<completed, failed, inProgress, wFailAt, wErr, expRest>>

\* A goroutine that calls SetError also after a successful export.
WErrorAlways(i) ==
    /\ wPc[i] \in { "error", "path" }
    /\ eEnvs' = SetError(Ep, eEnvs[i].id, <<"failed">>).envs
    /\ wPc' = [wPc EXCEPT ![i] = "done"]
    /\ UNCHANGED <<completed, failed, inProgress, wFailAt, wErr, expRest>>

\* The worker got an error back: progress.SetError, then wg.Done.
WError(i) ==
    /\ wPc[i] = "error"
    /\ eEnvs' = SetError(Ep, eEnvs[i].id, wErr[i].err).envs
    /\ wPc' = [wPc EXCEPT ![i] = "done"]
    /\ UNCHANGED <<completed, failed, inProgress, wFailAt, wErr, expRest>>

\* The display goroutine renders the table.
DDisplay ==
    /\ dPc = "running"
    /\ lastLines' = Len(eEnvs) + 3
    /\ UNCHANGED <<eEnvs, completed, failed, inProgress, skipFailed, wPc,
                   wFailAt, wErr, dPc, mPc, postEnvs, mResult, projFiles, notExp>>

\* The display goroutine sees done closed and returns.
DStop ==
    /\ dPc = "running"
    /\ mPc # "wait"
    /\ dPc' = "stopped"
    /\ UNCHANGED <<eEnvs, completed, failed, inProgress, lastLines, skipFailed,
                   wPc, wFailAt, wErr, mPc, postEnvs, mResult, projFiles, notExp>>

\* A return that does not wait for the workers.
MJoinEarly ==
    /\ mPc = "wait"
    /\ mPc' = "closed"
    /\ UNCHANGED <<eEnvs, completed, failed, inProgress, lastLines, skipFailed,
                   wPc, wFailAt, wErr, dPc, postEnvs, mResult, projFiles, notExp>>

\* exportEnvironmentsParallel returns once wg.Wait() does; close(done).
MJoin ==
    /\ mPc = "wait"
    /\ \A i \in 1..Len(wPc) : wPc[i] = "done"
    /\ mPc' = "closed"
    /\ UNCHANGED <<eEnvs, completed, failed, inProgress, lastLines, skipFailed,
                   wPc, wFailAt, wErr, dPc, postEnvs, mResult, projFiles, notExp>>

\* The final DisplayStatus and the test of the error that came back.
MFinalDisplay ==
    /\ mPc = "closed"
    /\ lastLines' = Len(eEnvs) + 3
    /\ IF exportEnvironmentsParallel # "nil" /\ ~skipFailed
       THEN mPc' = "returned" /\ mResult' = "error"
       ELSE mPc' = "post" /\ UNCHANGED mResult
    /\ UNCHANGED <<eEnvs, completed, failed, inProgress, skipFailed, wPc,
                   wFailAt, wErr, dPc, postEnvs, projFiles, notExp>>

\* PrintSummary and postProcessExports.
MPostProcess ==
    /\ mPc = "post"
    /\ postEnvs' = SuccessfulEnvs(eEnvs)
    /\ projFiles' = IF postEnvs' = <<>> THEN projFiles
                    ELSE postProcessExports(projFiles, eEnvs)
    /\ mPc' = "final"
    /\ UNCHANGED <<eEnvs, completed, failed, inProgress, lastLines, skipFailed,
                   wPc, wFailAt, wErr, dPc, mResult, notExp>>

\* showFinalSummary; exportSingleProject returns nil.
MFinal ==
    /\ mPc = "final"
    /\ mResult' = "nil"
    /\ mPc' = "returned"
    /\ UNCHANGED <<eEnvs, completed, failed, inProgress, lastLines, skipFailed,
                   wPc, wFailAt, wErr, dPc, postEnvs, projFiles, notExp>>

NextExport ==
    \/ \E i \in 1..Len(wPc) :
         \/ WStart(i)
         \/ \E res \in {"error", "running", "none"} : WLookup(i, res)
         \/ \E ok \in BOOLEAN : WTrigger(i, ok)
         \/ \E res \in {"IN_PROGRESS", "SUCCEEDED", "FAILED", "error"} : WPoll(i, res)
         \/ \E ok \in BOOLEAN : WDownload(i, ok)
         \/ \E ok \in BOOLEAN : WExtract(i, ok)
         \/ \E ok \in BOOLEAN : WClean(i, ok)
         \/ WComplete(i)
         \/ WSetPath(i)
         \/ WError(i)
    \/ DDisplay
    \/ DStop
    \/ MJoin
    \/ MFinalDisplay
    \/ MPostProcess
    \/ MFinal

SpecExport == InitExport /\ [][NextExport]_vars

\* The environments whose export met no failure at any step.
Unfailed == { i \in 1..Len(eEnvs) : wFailAt[i] = "none" }

\* Exactly one environment failed, and it failed at the remote trigger.
OneTriggerFailure ==
    /\ Cardinality((1..Len(eEnvs)) \ Unfailed) = 1
    /\ \A i \in (1..Len(eEnvs)) \ Unfailed : wFailAt[i] = "trigger"

PostProcessed == mPc \in {"final", "returned"}

\* C1: with --skip-failed, when exactly one environment fails at the remote
\* trigger and nothing fails for the others, every other environment is
\* "complete" and postProcessExports works on exactly those environments.
C1_PartialFailureContainment ==
    (skipFailed /\ PostProcessed /\ OneTriggerFailure) =>
        /\ \A i \in Unfailed : eEnvs[i].status = "complete"
        /\ \A i \in (1..Len(eEnvs)) \ Unfailed : eEnvs[i].status = "failed"
        /\ { postEnvs[k] : k \in 1..Len(postEnvs) } = Unfailed
        /\ Len(postEnvs) = Cardinality(Unfailed)

\* Three environments, the second failed at the trigger, and the post
\* processing ran over the two others.
C1_Witness ==
    /\ skipFailed /\ mPc = "returned" /\ OneTriggerFailure
    /\ Len(eEnvs) = 3
    /\ wFailAt[2] = "trigger"
    /\ postEnvs = <<1, 3>>

\* The module files of environment i as its worker extracted them, by their
\* paths below modules/.
ExtractedModuleFiles == { Rel(f, <<"modules">>) : f \in { g \in ArchiveFiles : g[1] = "modules" } }

\* C12: when exportSingleProject has finished, every module file the worker
\* of a "complete" environment extracted is in <project>/modules: the
\* post-processing reads the directory the worker wrote.
C12_WorkerFilesConsolidated ==
    PostProcessed =>
        \A i \in 1..Len(eEnvs) :
            eEnvs[i].status = "complete" =>
                \A f \in ExtractedModuleFiles : (<<"modules">> \o f) \in projFiles

\* C14: postProcessExports starts only after every worker has returned with
\* its environment "complete" or "failed"; nothing is written below
\* <project>/modules while a worker is still running.
C14_JoinBeforePostProcessing ==
    /\ mPc \in { "post", "final", "returned" } =>
          \A i \in 1..Len(eEnvs) : wPc[i] = "done" /\ IsTerminal(eEnvs[i].status)
    /\ (\E p \in projFiles : p[1] = "modules") =>
          \A i \in 1..Len(eEnvs) : wPc[i] = "done"

\* The post-processing has run over a project of three environments of
\* which one failed.
C14_Witness ==
    /\ mPc = "final"
    /\ Len(eEnvs) = 3
    /\ \E i \in 1..3 : eEnvs[i].status = "failed"
    /\ \E i \in 1..3 : eEnvs[i].status = "complete"

\* C15: "complete" and "failed" are absorbing: once an environment has one
\* of them, no step of any worker, of the display or of the orchestrator
\* changes its status.
C15_TerminalAbsorbing ==
    [][\A i \in 1..Len(eEnvs) :
          IsTerminal(eEnvs[i].status) => eEnvs'[i].status = eEnvs[i].status]_vars

\* One environment is "complete", another "failed", both workers have
\* returned, and a third worker is still at work.
C15_Witness ==
    /\ Len(eEnvs) = 3
    /\ eEnvs[1].status = "complete" /\ wPc[1] = "done"
    /\ eEnvs[2].status = "failed" /\ wPc[2] = "done"
    /\ wPc[3] = "poll"

\* C16: without --skip-failed, when an environment's export has failed,
\* exportSingleProject returns the failure after the join and
\* postProcessExports is not run.
C16_FailureSkipsPostProcessing ==
    (~skipFailed /\ \E i \in 1..Len(eEnvs) : eEnvs[i].status = "failed") =>
        /\ mPc \notin { "post", "final" }
        /\ mPc = "returned" => mResult = "error"

\* An error value carries a message when the message is one of its parts.
Carries(err, msg) == \E k \in 1..Len(err) : err[k] = msg

\* C17: when the export job of an environment ended in FAILED, or the
\* trigger or a poll call failed, the environment is "failed" with a non-nil
\* error that carries the message of the control plane, and the final summary
\* lists the environment with that error.
C17_FailureSurfaced ==
    \A i \in 1..Len(eEnvs) :
        (wPc[i] = "done" /\ wFailAt[i] \in { "trigger", "poll" }) =>
            /\ eEnvs[i].status = "failed"
            /\ eEnvs[i].err # <<>>
            /\ wErr[i].remote # "" => Carries(eEnvs[i].err, wErr[i].remote)
            /\ mPc = "returned" =>
                  [name |-> eEnvs[i].name, err |-> eEnvs[i].err]
                      \in showFinalSummary(eEnvs)

\* The part of C17 that does not depend on the text of the error.
C17_FailedAndListed ==
    \A i \in 1..Len(eEnvs) :
        (wPc[i] = "done" /\ wFailAt[i] \in { "trigger", "poll" }) =>
            /\ eEnvs[i].status = "failed"
            /\ eEnvs[i].err # <<>>
            /\ mPc = "returned" =>
                  [name |-> eEnvs[i].name, err |-> eEnvs[i].err]
                      \in showFinalSummary(eEnvs)

\* The place of a status in Pending -> Triggering | Waiting -> Downloading
\* -> Extracting -> Cleaning -> Complete.
StatusRank(status) ==
    CASE status = "pending" -> 0
      [] status = "triggering" -> 1
      [] status = "waiting" -> 2
      [] status = "downloading" -> 3
      [] status = "extracting" -> 4
      [] status = "cleaning" -> 5
      [] status = "complete" -> 6
      [] OTHER -> 7

\* C22: the status of an environment only moves forward along Pending ->
\* Triggering | Waiting -> Downloading -> Extracting -> Cleaning -> Complete
\* (it may be set again to what it is, it never goes back), and it becomes
\* "failed" only from a status that is not terminal.
C22_StatusOrder ==
    [][\A i \in 1..Len(eEnvs) :
          \/ eEnvs'[i].status = eEnvs[i].status
          \/ /\ eEnvs'[i].status = "failed"
             /\ ~IsTerminal(eEnvs[i].status)
          \/ /\ eEnvs'[i].status # "failed"
             /\ eEnvs[i].status # "failed"
             /\ StatusRank(eEnvs'[i].status) > StatusRank(eEnvs[i].status)]_vars

\* One environment went all the way to "complete", one is being polled
\* after its export was triggered, one failed while "downloading".
C22_Witness ==
    /\ Len(eEnvs) = 3
    /\ eEnvs[1].status = "complete"
    /\ eEnvs[2].status = "waiting" /\ wPc[2] = "poll"
    /\ eEnvs[3].status = "failed" /\ wFailAt[3] = "download"

\* C23: an environment becomes "triggering" only when no TERRAFORM_EXPORT
\* job of it is QUEUED or IN_PROGRESS: the step in which GetDeployments shows
\* such a job takes the environment from "pending" directly to "waiting".
C23_TriggerOrResume ==
    [][\A i \in 1..Len(eEnvs) :
          (wPc[i] = "lookup" /\ wPc'[i] = "poll") =>
              /\ eEnvs[i].status = "pending"
              /\ eEnvs'[i].status = "waiting"]_vars

\* The part of C23 about the remote job: TriggerTerraformExport is called
\* only after a GetDeployments that showed no running export, and a running
\* export is waited for as it is.
C23_NoSecondJob ==
    [][\A i \in 1..Len(eEnvs) :
          /\ (wPc[i] = "lookup" /\ wPc'[i] = "poll") => eEnvs'[i].status = "waiting"
          /\ wPc'[i] = "trigger" => wPc[i] \in { "lookup", "trigger" }]_vars

\* The number of environments with this status.
CountStatus(status) ==
    Cardinality({ i \in 1..Len(eEnvs) : eEnvs[i].status = status })

\* C27: the counters agree with the statuses: inProgress >= 0 and
\* completed + failed + inProgress <= number of environments at every point,
\* and once all workers have finished completed is the number of "complete"
\* environments, failed the number of "failed" ones, and inProgress is 0.
C27_CountersAgree ==
    /\ inProgress >= 0
    /\ completed + failed + inProgress <= Len(eEnvs)
    /\ (\A i \in 1..Len(wPc) : wPc[i] = "done") =>
          /\ completed = CountStatus("complete")
          /\ failed = CountStatus("failed")
          /\ inProgress = 0

\* The part of C27 that SetError does not disturb.
C27_CounterBounds ==
    /\ inProgress >= 0
    /\ completed + failed + inProgress <= Len(eEnvs)
    /\ completed = CountStatus("complete")
    /\ failed = 0

(***************************************************************************)
(*                         WORKSPACE MANAGER                               *)
(***************************************************************************)

\* Bounds of the workspace model.
MaxDeploy == 12      \* deployment ids 1..MaxDeploy, ordered as their names sort
MaxRuns == 2         \* commands run in one behaviour

\* cleanupOldReleases keeps this many directories and this many archives.
Retention == 10

DeployIDs == 1..MaxDeploy

\* The deployments the commands of the model are run on.
Targets == {1, 2}

\* Paths inside <env>/<deployment>/.
TfMain == << "tfexport", "main.tf" >>
StatePath == << "tfexport", "terraform.tfstate.d", "env", "terraform.tfstate" >>

\* State file contents: terraform writes a new one on every successful
\* apply or destroy.
StateTokens == << "s1", "s2", "s3", "s4", "s5", "s6" >>

\* The artifacts a command can be given: main.tf with a resource block (two
\* versions), and one that also ships a state file.
Artifact(art) ==
    CASE art = "A" -> << [name |-> TfMain, content |-> "resA", isDir |-> FALSE] >>
      [] art = "B" -> << [name |-> TfMain, content |-> "resB", isDir |-> FALSE] >>
      [] OTHER     -> << [name |-> << "tfexport" >>, content |-> "", isDir |-> TRUE],
                         [name |-> TfMain, content |-> "resA", isDir |-> FALSE],
                         [name |-> StatePath, content |-> "sZ", isDir |-> FALSE] >>

ArtNames == { "A", "B", "S" }

\* A deployment directory as an earlier apply of artifact A left it.
AppliedTree == WriteFile(WriteFile(NoFiles, TfMain, "resA"), StatePath, "sF")

\* os.Stat(tfWorkDir): tfexport exists as soon as something lies below it.
TfWorkDirExists(tree) == \E q \in DOMAIN tree : q[1] = "tfexport"

StateOf(tree) == IF HasFile(tree, StatePath) THEN tree[StatePath] ELSE "none"

\* The directory of the state file, which os.MkdirAll makes before the
\* state is copied; an empty directory is held in a tree under its path.
StateDir == << "tfexport", "terraform.tfstate.d", "env" >>

\* MkdirAll(stateDir) followed by a CopyFile that fails before it creates
\* the destination.
FailedCopy(tree) == WriteFile(tree, StateDir, "dir")

\* A retention that keeps the first names of the sorted list.
KeepOldest(S) ==
    IF Cardinality(S) > Retention
    THEN { x \in S : Cardinality({ y \in S : y < x }) < Retention }
    ELSE S

\* The names sort.Strings puts last: all of them when there are at most
\* Retention, else the Retention largest.
KeepNewest(S) ==
    IF Cardinality(S) > Retention
    THEN { x \in S : Cardinality({ y \in S : y > x }) < Retention }
    ELSE S

\* UpdatePreventDestroyInSingleModule on one .tf file: resource blocks get
\* lifecycle { prevent_destroy = false } and the file is rewritten.
SetPreventDestroy(c) ==
    CASE c = "resA" -> "resA+pd"
      [] c = "resB" -> "resB+pd"
      [] OTHER -> c

\* UpdatePreventDestroyInTFs(tfWorkDir)
UpdatePreventDestroyInTFs(tree) ==
    [q \in DOMAIN tree |->
        IF q[1] = "tfexport" /\ q[Len(q)] = "main.tf"
        THEN SetPreventDestroy(tree[q]) ELSE tree[q]]

\* ExtractZip into the deployment directory, then the patch --allow-destroy
\* asks for.
ExtractInto(art, tree, allowDestroy) ==
    IF allowDestroy THEN UpdatePreventDestroyInTFs(ExtractZip(Artifact(art), tree))
    ELSE ExtractZip(Artifact(art), tree)

\* The deployments PromptUser can be told to take the state from: the
\* targets and one of the others (they are all alike).
SelChoices(existing) ==
    (existing \cap Targets) \cup
    { x \in existing \ Targets : \A y \in existing \ Targets : x <= y }

\* Materialize: everything apply / plan / destroy do from
\* cleanupOldReleases to the end of the extract-or-compare branch.
Materialize(d, art, backend, allowDestroy, resp, sel, zipInBase, copyOk) ==
    LET kept == KeepNewest(DOMAIN ws)
        ws1 == [x \in kept |-> ws[x]]
        zips1 == KeepNewest(zips)
        zipThere == ~zipInBase \/ d \in zips1
        tree0 == IF d \in kept THEN ws[d] ELSE NoFiles
        wsExisted == TfWorkDirExists(tree0)
        existing == kept \ {d}
        prompted == ~wsExisted /\ ~backend /\ existing # {}
        copyTried ==
            /\ prompted
            /\ \/ resp = "enter" /\ latest # "none"
               \/ resp = "y" /\ HasFile(ws1[sel], StatePath)
        carry ==
            CASE ~prompted -> [ok |-> TRUE, tree |-> tree0]
              [] copyTried /\ ~copyOk ->
                    [ok |-> FALSE, tree |-> FailedCopy(tree0)]
              [] resp = "enter" /\ latest # "none" ->
                    [ok |-> TRUE, tree |-> WriteFile(tree0, StatePath, latest)]
              [] resp = "y" ->
                    IF HasFile(ws1[sel], StatePath)
                    THEN [ok |-> TRUE,
                          tree |-> WriteFile(tree0, StatePath, ws1[sel][StatePath])]
                    ELSE [ok |-> FALSE, tree |-> tree0]
              [] OTHER -> [ok |-> TRUE, tree |-> tree0]
        different == IsZipDifferentFromDir(Artifact(art), tree0, "none").different
        out ==
            CASE ~wsExisted /\ ~carry.ok ->
                    [ok |-> FALSE, tree |-> carry.tree, extracted |-> FALSE]
              [] ~wsExisted /\ ~zipThere ->
                    [ok |-> FALSE, tree |-> carry.tree, extracted |-> FALSE]
              [] ~wsExisted ->
                    [ok |-> TRUE, tree |-> ExtractInto(art, carry.tree, allowDestroy),
                     extracted |-> TRUE]
              [] ~zipThere ->
                    [ok |-> FALSE, tree |-> tree0, extracted |-> FALSE]
              [] different ->
                    [ok |-> TRUE, tree |-> ExtractInto(art, tree0, allowDestroy),
                     extracted |-> TRUE]
              [] OTHER ->
                    [ok |-> TRUE, tree |-> tree0, extracted |-> FALSE]
    IN  [ok |-> out.ok, tree |-> out.tree, extracted |-> out.extracted,
         ws |-> ws1, zips |-> zips1, wsExisted |-> wsExisted, prompted |-> prompted,
         prunedDir |-> d \in DOMAIN ws /\ d \notin kept,
         prunedZip |-> zipInBase /\ d \notin zips1,
         copyTried |-> copyTried, carryFailed |-> ~carry.ok,
         selState |-> IF prompted /\ resp = "y" THEN StateOf(ws1[sel]) ELSE "none"]

\* Whether PromptUser is reached: a new Workspace, no backend, and other
\* deployments of the environment left after the pruning.
Prompted(d, backend) ==
    LET kept == KeepNewest(DOMAIN ws)
    IN  /\ ~(d \in kept /\ TfWorkDirExists(ws[d]))
        /\ ~backend
        /\ kept \ {d} # {}

\* What PromptUser can be answered: <<response, selected deployment>>.
\* Without a prompt there is nothing to answer.
PromptAnswers(d, backend) ==
    IF Prompted(d, backend)
    THEN { <<"n", 0>>, <<"enter", 0>> } \cup
         { <<"y", x>> : x \in SelChoices(KeepNewest(DOMAIN ws) \ {d}) }
    ELSE { <<"n", 0>> }

\* Where the state comes from: a configured backend, a file given with
\* --state, or neither.
StateModes == { "backend", "explicit", "local" }

\* The environments the model starts from: none yet, one deployment, and
\* ten or more of them (around the retention limit).
InitWs ==
    /\ \E sc \in { [D |-> {}, z |-> FALSE, alt |-> "none"],
                   [D |-> {1}, z |-> FALSE, alt |-> "none"],
                   [D |-> {1}, z |-> FALSE, alt |-> "sU"],
                   [D |-> 3..(Retention + 2), z |-> FALSE, alt |-> "none"],
                   [D |-> DeployIDs, z |-> TRUE, alt |-> "none"] } :
         /\ ws = [x \in sc.D |-> AppliedTree]
         /\ zips = IF sc.z THEN sc.D ELSE {}
         /\ latest = IF sc.D = {} THEN "none" ELSE "sF"
         /\ matArt = [x \in Targets |-> IF x \in sc.D THEN "A" ELSE "none"]
         /\ latestAlt = sc.alt
    /\ runs = 0
    /\ lastRun = NoRun
    /\ DiffIdle
    /\ ConsIdle
    /\ ExpIdle
    /\ CleanIdle
    /\ RelIdle
    /\ IdIdle
    /\ StdIdle

\* One run of apply, plan or destroy on <d>.zip holding artifact art.
RunCommand(cmd, d, art, mode, allowDestroy, resp, sel, zipInBase, tfOk, copyOk) ==
    /\ runs < MaxRuns
    /\ zipInBase => d \in zips
    /\ <<resp, sel>> \in PromptAnswers(d, mode = "backend")
    \* a failed copy ends the command before the artifact is looked at
    /\ ~copyOk => (resp \in { "y", "enter" } /\ art = "A" /\ ~allowDestroy /\ tfOk)
    /\ \E m \in { Materialize(d, art, mode = "backend", allowDestroy, resp, sel,
                               zipInBase, copyOk) } :
       LET backend == mode = "backend"
           \* the state file terraform starts from
           tree1 ==
               IF mode = "explicit"
               THEN WriteFile(m.tree, StatePath, "sX")
               ELSE IF cmd = "plan" /\ mode = "local" /\ latestAlt # "none"
               THEN WriteFile(m.tree, StatePath, latestAlt)
               ELSE m.tree
           writes == m.ok /\ tfOk /\ cmd # "plan" /\ ~backend
           tree2 == IF ~m.ok THEN m.tree
                    ELSE IF writes
                    THEN WriteFile(tree1, StatePath, StateTokens[runs + 1])
                    ELSE tree1
       IN  /\ ~m.ok => tfOk
           /\ ~copyOk => m.copyTried
           /\ ws' = (d :> tree2) @@ m.ws
           /\ zips' = m.zips
           /\ latest' = IF writes THEN StateOf(tree2) ELSE latest
           /\ matArt' = [x \in Targets |->
                           IF x = d /\ m.ok THEN art
                           ELSE IF x \in DOMAIN m.ws \/ x = d THEN matArt[x]
                           ELSE "none"]
           /\ lastRun' =
                [cmd |-> cmd, mode |-> mode, art |-> art, resp |-> resp,
                 prunedDir |-> m.prunedDir,
                 prunedZip |-> m.prunedZip,
                 wsExisted |-> m.wsExisted, prompted |-> m.prompted,
                 sameArt |-> m.wsExisted /\ matArt[d] = art,
                 extracted |-> m.extracted,
                 selState |-> m.selState,
                 matState |-> StateOf(m.tree),
                 latestBefore |-> latest,
                 usedState |-> IF m.ok THEN StateOf(tree1) ELSE "none",
                 result |-> IF ~m.ok THEN "abort"
                            ELSE IF tfOk THEN "ok" ELSE "tferr",
                 carryFailed |-> m.carryFailed,
                 leftWorkDir |-> TfWorkDirExists(tree2)]
    /\ runs' = runs + 1
    /\ UNCHANGED <<latestAlt, notWs>>

RunApply(d, art, mode, allowDestroy, resp, sel, zipInBase, tfOk, copyOk) ==
    RunCommand("apply", d, art, mode, allowDestroy, resp, sel, zipInBase, tfOk, copyOk)

RunPlan(d, art, mode, allowDestroy, resp, sel, zipInBase, tfOk, copyOk) ==
    RunCommand("plan", d, art, mode, allowDestroy, resp, sel, zipInBase, tfOk, copyOk)

RunDestroy(d, art, mode, allowDestroy, resp, sel, zipInBase, tfOk, copyOk) ==
    RunCommand("destroy", d, art, mode, allowDestroy, resp, sel, zipInBase, tfOk, copyOk)

NextWs ==
    \E d \in Targets, mode \in StateModes :
      \E rs \in PromptAnswers(d, mode = "backend"),
         zipInBase \in { b \in BOOLEAN : b => d \in zips } :
        \E art \in ArtNames, allowDestroy \in BOOLEAN, tfOk \in BOOLEAN,
           copyOk \in BOOLEAN :
          \/ RunApply(d, art, mode, allowDestroy, rs[1], rs[2], zipInBase, tfOk, copyOk)
          \/ RunPlan(d, art, mode, allowDestroy, rs[1], rs[2], zipInBase, tfOk, copyOk)
          \/ RunDestroy(d, art, mode, allowDestroy, rs[1], rs[2], zipInBase, tfOk, copyOk)

SpecWS == InitWs /\ [][NextWs]_vars

\* C2: cleanupOldReleases, as a command calls it, removes neither the
\* directory of the deployment the command works on nor the archive the
\* command was given.
C2_PruningSparesCurrent ==
    lastRun.cmd # "none" => (~lastRun.prunedDir /\ ~lastRun.prunedZip)

\* C3: a command run on an existing Workspace with the artifact that the
\* previous successful Materialize of that deployment used extracts
\* nothing, whatever the flags (here for the artifacts that ship no state
\* file).
C3_NoReExtraction ==
    (/\ lastRun.cmd # "none" /\ lastRun.wsExisted /\ lastRun.sameArt
     /\ lastRun.art \in {"A", "B"}) =>
        ~lastRun.extracted

\* C5: when the user selects a deployment that has a state file for a new
\* Workspace (no backend, no --state), the state path of the new Workspace
\* holds that state file's content once Materialize is over, whatever the
\* artifact.
C5_StateCarryForward ==
    (/\ lastRun.result \in {"ok", "tferr"}
     /\ lastRun.mode = "local"
     /\ lastRun.prompted /\ lastRun.resp = "y"
     /\ lastRun.selState # "none") =>
        lastRun.matState = lastRun.selState

\* C6: a successful plan run without backend and without --state, in which
\* the user is not asked or presses enter, starts from the snapshot the
\* last apply or destroy persisted for the environment (here with an
\* artifact that ships no state file and no latest.tfstate lying around).
C6_PlanUsesLatest ==
    (/\ lastRun.cmd = "plan" /\ lastRun.result = "ok"
     /\ lastRun.mode = "local"
     /\ (~lastRun.prompted \/ lastRun.resp = "enter")
     /\ lastRun.art \in {"A", "B"}
     /\ latestAlt = "none"
     /\ lastRun.latestBefore # "none") =>
        lastRun.usedState = lastRun.latestBefore

\* C30: a command whose state carry-forward failed (the selected deployment
\* has no state file, or the copy of the selected or of the latest snapshot
\* failed) stops before the artifact is extracted and leaves no tfexport
\* directory behind, so that the next run of the command is again a run on
\* a new Workspace.
C30_FailedCarryLeavesNoWorkspace ==
    (lastRun.result = "abort" /\ lastRun.carryFailed) =>
        /\ ~lastRun.extracted
        /\ ~lastRun.leftWorkDir

\* The part of C30 about the abort, and about a selected deployment that
\* has no state file: nothing is extracted, and when no copy was started
\* no tfexport directory is left.
C30_FailedCarryAborts ==
    lastRun.carryFailed =>
        /\ lastRun.result = "abort"
        /\ ~lastRun.extracted
        /\ (lastRun.resp = "y" /\ lastRun.selState = "none") => ~lastRun.leftWorkDir

(***************************************************************************)
(* SANITIZATION ENGINE (pkg/utils/utils.go: CleanExportedFiles and the     *)
(* passes it calls).                                                       *)
(*                                                                         *)
(* The tree is modelled file by file.  An HCL file is what hclwrite's      *)
(* parser makes of it: its blocks, and for every attribute of a block the  *)
(* tokens of its expression.  The layout of a file (order of attributes,   *)
(* spacing, comments) is not modelled: hclwrite keeps what it does not     *)
(* touch, and every file it writes goes through the same formatter.        *)
(***************************************************************************)
MaxBlocks == 2       \* module blocks of level2/main.tf
MaxOutputs == 2      \* output blocks of modules/db/outputs.tf
MaxResources == 1    \* resources of downloaded-terraform.tfstate
MaxCleanRuns == 2    \* runs of CleanExportedFiles on one tree

ModNames == { "blueprint_self", "environment", "db" }

\* Expressions as the parser tokenises them.
EmptyObj == <<"{", "}">>
DepOnly == <<"{", "deployment_id", "=", "var", ".", "deployment_id", "}">>
OtherKeys == <<"{", "vpc", "=", "var", ".", "vpc", "}">>
DepAndOther == <<"{", "deployment_id", "=", "var", ".", "deployment_id",
                 "vpc", "=", "var", ".", "vpc", "}">>
VarCluster == <<"var", ".", "cluster">>

\* hclwrite.TokensForIdentifier(s): one identifier token holding s.
TokensForIdentifier(s) == <<s>>

\* What the lexer makes of one token once the file has been written and is
\* read again: "{}" and "var.cluster" were written as one identifier token
\* but come back as several tokens.
Lex(tok) ==
    CASE tok = "{}" -> <<"{", "}">>
      [] tok = "var.cluster" -> <<"var", ".", "cluster">>
      [] tok = "var.environment" -> <<"var", ".", "environment">>
      [] OTHER -> <<tok>>

RECURSIVE Relex(_)
Relex(expr) ==
    IF expr = <<>> THEN <<>> ELSE Lex(Head(expr)) \o Relex(Tail(expr))

\* os.WriteFile(path, file.Bytes()) followed by the next ParseConfig: the
\* blocks of a module-block file as the next pass sees them.
WriteModuleBlocks(blocks) ==
    [n \in DOMAIN blocks |->
        [a \in DOMAIN blocks[n] |-> Relex(blocks[n][a])]]

RemoveAttributes(attrs, names) ==
    [a \in (DOMAIN attrs) \ names |-> attrs[a]]

SetAttributeRaw(attrs, name, tokens) ==
    [a \in (DOMAIN attrs) \cup {name} |->
        IF a = name THEN tokens ELSE attrs[a]]

\* ---- fixLevel2MainTf
allowedAttrs ==
    { "source", "inputs", "instance", "instance_name", "cluster", "environment" }

requiredModuleVars ==
    { "inputs", "instance", "instance_name", "cluster", "environment" }

\* The default fixLevel2MainTf gives a missing required attribute.
RequiredDefault(varName) ==
    CASE varName = "inputs" -> TokensForIdentifier("{}")
      [] varName = "instance" -> TokensForIdentifier("{}")
      [] varName = "instance_name" -> <<"\"", "\"">>
      [] varName = "cluster" -> TokensForIdentifier("var.cluster")
      [] varName = "environment" -> TokensForIdentifier("var.environment")

\* A variant that removes the unwanted attributes but adds no defaults.
fixLevel2BlockNoDefaults(moduleName, attrs) ==
    IF moduleName \in { "blueprint_self", "environment" }
    THEN attrs
    ELSE RemoveAttributes(attrs, (DOMAIN attrs) \ allowedAttrs)

\* The body of the loop of fixLevel2MainTf for one module block.
fixLevel2Block(moduleName, attrs) ==
    IF moduleName \in { "blueprint_self", "environment" }
    THEN attrs
    ELSE LET kept == RemoveAttributes(attrs, (DOMAIN attrs) \ allowedAttrs)
         IN  [a \in (DOMAIN kept) \cup requiredModuleVars |->
                 IF a \in DOMAIN kept THEN kept[a] ELSE RequiredDefault(a)]

\* fixLevel2MainTf(tfexport/level2/main.tf): [file, err].
fixLevel2MainTf(f) ==
    IF ~f.exists THEN [file |-> f, err |-> FALSE]
    ELSE IF ~f.parses THEN [file |-> f, err |-> TRUE]
    ELSE LET new == [n \in DOMAIN f.blocks |-> fixLevel2Block(n, f.blocks[n])]
         IN  [file |-> IF new # f.blocks
                       THEN [f EXCEPT !.blocks = WriteModuleBlocks(new)]
                       ELSE f,
              err |-> FALSE]

\* ---- cleanupTerraformFiles, "main.tf" under level2
attributesToClean ==
    { "instance_type", "iac_version", "release_metadata",
      "generate_release_metadata", "baseinfra", "settings" }

\* The inputs rule: emptied when a token is deployment_id or the expression
\* has at most three tokens, added when missing.
CleanInputs(attrs) ==
    IF "inputs" \in DOMAIN attrs
    THEN LET tokens == attrs["inputs"]
             hasOnlyDeploymentId ==
                 \E i \in 1..Len(tokens) : tokens[i] = "deployment_id"
         IN  IF hasOnlyDeploymentId \/ Len(tokens) <= 3
             THEN SetAttributeRaw(attrs, "inputs", TokensForIdentifier("{}"))
             ELSE attrs
    ELSE SetAttributeRaw(attrs, "inputs", TokensForIdentifier("{}"))

\* The level2 rule for one module block.
Level2Rule(moduleName, attrs) ==
    IF moduleName = "blueprint_self"
    THEN attrs
    ELSE LET a1 == RemoveAttributes(attrs, attributesToClean)
             a2 == IF "providers" \in DOMAIN a1 /\ Len(a1["providers"]) <= 3
                   THEN RemoveAttributes(a1, {"providers"})
                   ELSE a1
         IN  CleanInputs(a2)

\* ---- cleanupTerraformFiles, the general cleanup of every .tf file
attributesToRemove ==
    { "settings", "state", "infra_output", "deployment_id", "release_metadata",
      "instance_type", "iac_version", "generate_release_metadata", "baseinfra",
      "cc_metadata" }

\* The general cleanup for one module block.
GeneralCleanup(attrs) ==
    RemoveAttributes(attrs, {"cc_metadata"} \cup attributesToRemove)

\* cleanupTerraformFiles on tfexport/level2/main.tf.  A file that does not
\* parse is skipped.  The file is never left without blocks, so it is written,
\* not deleted.
cleanupLevel2MainTf(f) ==
    IF ~f.exists \/ ~f.parses THEN f
    ELSE LET new == [n \in DOMAIN f.blocks |->
                        GeneralCleanup(Level2Rule(n, f.blocks[n]))]
         IN  IF new # f.blocks
             THEN [f EXCEPT !.blocks = WriteModuleBlocks(new)]
             ELSE f

\* ---- fixModuleVariables on modules/db/variables.tf
\* The file is modelled by the labels of its variable blocks; the order in
\* which the missing ones are appended (a Go map iteration) is not modelled.
requiredVars == { "instance", "instance_name", "cluster", "environment", "inputs" }

fixModuleVariables(f) ==
    IF ~f.exists \/ ~f.parses THEN f
    ELSE [f EXCEPT !.vars = f.vars \cup requiredVars]

\* ---- cleanupTerraformFiles, "variables.tf" under /modules/
moduleVarsToRemove ==
    { "release_metadata", "instance_type", "iac_version",
      "generate_release_metadata", "settings", "baseinfra", "cc_metadata" }

\* A file left without blocks by a modification is deleted.
cleanupModuleVariablesTf(f) ==
    IF ~f.exists \/ ~f.parses THEN f
    ELSE LET new == f.vars \ moduleVarsToRemove
         IN  IF new = f.vars THEN f
             ELSE IF new = {} THEN [exists |-> FALSE, parses |-> FALSE, vars |-> {}]
             ELSE [f EXCEPT !.vars = new]

\* ---- cleanupTerraformFiles, "outputs.tf" (of a module that is neither
\* environment nor blueprint_self)
removedVars ==
    { "cc_metadata", "deployment_id", "release_metadata",
      "generate_release_metadata", "baseinfra", "settings", "infra_output",
      "state" }

\* The tokens of the model either are one of removedVars or contain none.
ReferencesRemovedVar(value) ==
    \E i \in 1..Len(value) : value[i] \in removedVars

RECURSIVE RemoveFirstBlock(_, _)
RemoveFirstBlock(blocks, name) ==
    IF blocks = <<>> THEN <<>>
    ELSE IF Head(blocks).name = name THEN Tail(blocks)
    ELSE <<Head(blocks)>> \o RemoveFirstBlock(Tail(blocks), name)

RECURSIVE RemoveBlocks(_, _)
RemoveBlocks(blocks, names) ==
    IF names = <<>> THEN blocks
    ELSE RemoveBlocks(RemoveFirstBlock(blocks, Head(names)), Tail(names))

RECURSIVE BlockNames(_)
BlockNames(blocks) ==
    IF blocks = <<>> THEN <<>>
    ELSE <<Head(blocks).name>> \o BlockNames(Tail(blocks))

\* A variant that gives up after the first output it finds.
outputsToRemoveFirstOnly(blocks) ==
    LET all == BlockNames(SelectSeq(blocks,
                   LAMBDA b : ReferencesRemovedVar(b.value)))
    IN  IF all = <<>> THEN <<>> ELSE <<Head(all)>>

\* The names collected in outputsToRemove (a name collected twice is removed
\* once: the second search finds no block).
outputsToRemove(blocks) ==
    BlockNames(SelectSeq(blocks, LAMBDA b : ReferencesRemovedVar(b.value)))

cleanupOutputsTf(f) ==
    IF ~f.exists \/ ~f.parses THEN f
    ELSE LET new == RemoveBlocks(f.blocks, outputsToRemove(f.blocks))
         IN  IF new = f.blocks THEN f
             ELSE IF new = <<>> THEN NoHcl
             ELSE [f EXCEPT !.blocks = new]

\* ---- the files CleanExportedFiles removes by name (steps 1 to 4) and
\* cc_metadata.tf, which cleanupTerraformFiles clears and then deletes.
\* A path is the sequence of its components below the root directory.
PlainPaths ==
    { <<"modules", "db", "facets.yaml">>, <<"modules", "db", "resources_gen.tf">>,
      <<"modules", "db", "_variables.tf">>, <<"modules", "db", "README.md">>,
      <<"tfexport", "terraform.d", "plugin">>, <<"tfexport", "outputs.tf">>,
      <<"tfexport", "cc_metadata.tf">> }

Base(p) == p[Len(p)]

RemovedByName(p) ==
    \/ p[1] = "modules" /\ Base(p) \in { "facets.yaml", "resources_gen.tf" }
    \/ Len(p) >= 2 /\ p[1] = "tfexport" /\ p[2] = "terraform.d"
    \/ p = <<"tfexport", "outputs.tf">>
    \/ p[1] = "modules" /\ Base(p) = "_variables.tf"

cleanupPlain(plain) == { p \in plain : Base(p) # "cc_metadata.tf" }

\* ---- step 8: tfexport/downloaded-terraform.tfstate
ScratchTypes == { "scratch_string", "scratch_number" }

\* strings.Contains(depStr, "scratch_string") || ... "scratch_number"
IsScratchDep(depStr) == depStr \in { "scratch_string.x", "module.db.scratch_number.n" }

\* A nil slice is marshalled as null, which the next run does not read as
\* an array.
JsonArray(items) == [arr |-> items # <<>>, items |-> items]

cleanDependencies(res) ==
    IF ~res.deps.arr THEN res
    ELSE LET cleanedDeps == SelectSeq(res.deps.items, LAMBDA d : ~IsScratchDep(d))
         IN  IF Len(cleanedDeps) # Len(res.deps.items)
             THEN [res EXCEPT !.deps = JsonArray(cleanedDeps)]
             ELSE res

RECURSIVE cleanResources(_)
cleanResources(items) ==
    IF items = <<>> THEN <<>>
    ELSE <<cleanDependencies(Head(items))>> \o cleanResources(Tail(items))

\* [file, err]; err is the early return of CleanExportedFiles.
cleanTfstate(f) ==
    IF ~f.exists THEN [file |-> f, err |-> FALSE]
    ELSE IF ~f.parses THEN [file |-> f, err |-> TRUE]
    ELSE LET kept == SelectSeq(f.resources.items,
                               LAMBDA r : r.type \notin ScratchTypes)
             filteredResources == cleanResources(kept)
             modified ==
                 \/ ~f.version
                 \/ f.resources.arr /\ Len(kept) # Len(f.resources.items)
                 \/ f.resources.arr /\ filteredResources # kept
         IN  [file |-> IF ~modified THEN f
                       ELSE [f EXCEPT !.version = TRUE,
                                      !.resources =
                                          IF f.resources.arr
                                          THEN JsonArray(filteredResources)
                                          ELSE f.resources],
              err |-> FALSE]

\* ---- step 9: tfexport/level2/input_db.tf.json, the keys of locals.input_db
cleanInputJson(f) ==
    IF ~f.exists THEN [file |-> f, err |-> FALSE]
    ELSE IF ~f.parses THEN [file |-> f, err |-> TRUE]
    ELSE [file |-> [f EXCEPT !.keys = f.keys \ { "flavor", "version", "kind" }],
          err |-> FALSE]

\* ---- CleanExportedFiles(rootDir): [tree, ret]
CleanExportedFiles(t) ==
    LET plain1 == { p \in t.plain : ~RemovedByName(p) }
        vars5 == fixModuleVariables(t.modVars)
        l2fix == fixLevel2MainTf(t.l2main).file
        l2 == cleanupLevel2MainTf(l2fix)
        plain7 == cleanupPlain(plain1)
        vars7 == cleanupModuleVariablesTf(vars5)
        outs7 == cleanupOutputsTf(t.outputs)
        st == cleanTfstate(t.tfstate)
        js == cleanInputJson(t.inputJson)
        t7 == [l2main |-> l2, modVars |-> vars7, outputs |-> outs7,
               plain |-> plain7, tfstate |-> t.tfstate, inputJson |-> t.inputJson]
    IN  IF st.err THEN [tree |-> t7, ret |-> "error"]
        ELSE IF js.err
        THEN [tree |-> [t7 EXCEPT !.tfstate = st.file], ret |-> "error"]
        ELSE [tree |-> [t7 EXCEPT !.tfstate = st.file, !.inputJson = js.file],
              ret |-> "nil"]

\* ---- the trees CleanExportedFiles is run on
AttrValue(a) ==
    CASE a = "source" -> <<"\"", "../../modules/m", "\"">>
      [] a = "cluster" -> VarCluster
      [] a = "settings" -> <<"var", ".", "settings">>
      [] a = "providers" -> EmptyObj
      [] a = "depends_on" -> <<"[", "module", ".", "environment", "]">>

\* The inputs expressions of an exported block; <<>> stands for no inputs.
InputsChoices == { <<>>, EmptyObj, DepOnly, OtherKeys, DepAndOther }

ModuleBlock(inp, extras) ==
    [a \in {"source"} \cup extras \cup (IF inp = <<>> THEN {} ELSE {"inputs"}) |->
        IF a = "inputs" THEN inp ELSE AttrValue(a)]

ModuleBlocks ==
    { ModuleBlock(inp, extras) :
        inp \in InputsChoices,
        extras \in SUBSET { "cluster", "settings", "providers", "depends_on" } }

Level2Files ==
    { NoL2, [exists |-> TRUE, parses |-> FALSE, blocks |-> NoFiles] } \cup
    { [exists |-> TRUE, parses |-> TRUE, blocks |-> b] :
        b \in UNION { [names -> ModuleBlocks] :
                        names \in { s \in SUBSET ModNames :
                                        Cardinality(s) <= MaxBlocks } } }

ModuleVarsFiles ==
    { [exists |-> FALSE, parses |-> FALSE, vars |-> {}],
      [exists |-> TRUE, parses |-> FALSE, vars |-> {}] } \cup
    { [exists |-> TRUE, parses |-> TRUE, vars |-> v] :
        v \in SUBSET { "instance", "cluster", "settings", "cc_metadata", "name" } }

OutputBlocks ==
    { [name |-> n, value |-> v] :
        n \in { "endpoint", "meta" },
        v \in { <<"var", ".", "name">>, <<"var", ".", "cc_metadata">> } }

\* Output names are unique within a module.
OutputsFiles ==
    { NoHcl, [exists |-> TRUE, parses |-> FALSE, blocks |-> <<>>] } \cup
    { [exists |-> TRUE, parses |-> TRUE, blocks |-> b] :
        b \in { s \in SeqsUpTo(OutputBlocks, MaxOutputs) :
                  \A i, j \in 1..Len(s) : s[i].name = s[j].name => i = j } }

DepsChoices ==
    { [arr |-> FALSE, items |-> <<>>],
      [arr |-> TRUE, items |-> <<>>],
      [arr |-> TRUE, items |-> <<"scratch_string.x">>],
      [arr |-> TRUE, items |-> <<"aws_s3_bucket.b", "module.db.scratch_number.n">>] }

Resources ==
    { [type |-> ty, deps |-> d] :
        ty \in { "scratch_string", "aws_s3_bucket" }, d \in DepsChoices }

StateFiles ==
    { NoState,
      [exists |-> TRUE, parses |-> FALSE, version |-> FALSE,
       resources |-> [arr |-> FALSE, items |-> <<>>]] } \cup
    { [exists |-> TRUE, parses |-> TRUE, version |-> v, resources |-> r] :
        v \in BOOLEAN,
        r \in { [arr |-> FALSE, items |-> <<>>] } \cup
              { [arr |-> TRUE, items |-> s] : s \in SeqsUpTo(Resources, MaxResources) } }

InputJsonFiles ==
    { NoJson, [exists |-> TRUE, parses |-> FALSE, keys |-> {}] } \cup
    { [exists |-> TRUE, parses |-> TRUE, keys |-> k] :
        k \in SUBSET { "flavor", "version", "kind", "spec" } }

\* Three families of trees: level2/main.tf varies, the module directory
\* varies, the rest of tfexport varies.
ConfigTrees ==
    { [NoCfg EXCEPT !.l2main = f] : f \in Level2Files } \cup
    { [NoCfg EXCEPT !.modVars = v, !.outputs = o, !.plain = p] :
        v \in ModuleVarsFiles, o \in OutputsFiles,
        p \in SUBSET { q \in PlainPaths : q[1] = "modules" } } \cup
    { [NoCfg EXCEPT !.tfstate = s, !.inputJson = j, !.plain = p] :
        s \in StateFiles, j \in InputJsonFiles,
        p \in SUBSET { q \in PlainPaths : q[1] = "tfexport" } }

InitClean ==
    /\ cfgTree \in ConfigTrees
    /\ cfgOrig = cfgTree
    /\ cfgPrev = cfgTree
    /\ cleanRuns = 0
    /\ cleanRet = "none"
    /\ DiffIdle
    /\ ConsIdle
    /\ ExpIdle
    /\ WsIdle
    /\ RelIdle
    /\ IdIdle
    /\ StdIdle

\* utils.CleanExportedFiles(rootDir), as ProcessExportedEnvironment calls it.
DoClean ==
    /\ cleanRuns < MaxCleanRuns
    /\ \E r \in { CleanExportedFiles(cfgTree) } :
         /\ cfgTree' = r.tree
         /\ cleanRet' = r.ret
    /\ cfgPrev' = cfgTree
    /\ cleanRuns' = cleanRuns + 1
    /\ UNCHANGED <<cfgOrig, notClean>>

NextClean == DoClean

SpecClean == InitClean /\ [][NextClean]_vars

DbBlockOfC8 ==
    /\ cfgOrig.l2main.exists
    /\ cfgOrig.l2main.parses
    /\ "db" \in DOMAIN cfgOrig.l2main.blocks
    /\ "inputs" \in DOMAIN cfgOrig.l2main.blocks["db"]
    /\ cfgOrig.l2main.blocks["db"]["inputs"] = DepOnly
    /\ "cluster" \notin DOMAIN cfgOrig.l2main.blocks["db"]

DbBlockSanitized ==
    LET db == cfgTree.l2main.blocks["db"]
    IN  /\ "inputs" \in DOMAIN db
        /\ db["inputs"] = EmptyObj
        /\ "cluster" \in DOMAIN db
        /\ db["cluster"] = VarCluster
        /\ (DOMAIN db) \cap (attributesToClean \cup attributesToRemove) = {}

ProtectedModules == { "blueprint_self", "environment" }

\* C9: the module blocks blueprint_self and environment of level2/main.tf are
\* the same before and after CleanExportedFiles, whatever attributes they
\* carry: none is removed, none is added.
C9_ProtectedBlocksUntouched ==
    (cleanRuns >= 1 /\ cfgOrig.l2main.exists /\ cfgOrig.l2main.parses) =>
        \A n \in ProtectedModules \cap DOMAIN cfgOrig.l2main.blocks :
            cfgTree.l2main.blocks[n] = cfgOrig.l2main.blocks[n]

HasToken(expr, tok) == \E k \in 1..Len(expr) : expr[k] = tok

\* The module blocks of level2/main.tf that are not protected and carried
\* an inputs attribute before the run.
BlocksWithInputs ==
    { n \in DOMAIN cfgOrig.l2main.blocks \ ProtectedModules :
        "inputs" \in DOMAIN cfgOrig.l2main.blocks[n] }

\* C29: the inputs of a module block that is not protected become the empty
\* object only if they were empty or held the deployment_id key alone; an
\* inputs object with another key (vpc) keeps that key.
C29_InputsEmptiedOnlyWhenBare ==
    (cleanRuns = 1 /\ cfgOrig.l2main.exists /\ cfgOrig.l2main.parses) =>
        \A n \in BlocksWithInputs :
            /\ n \in DOMAIN cfgTree.l2main.blocks
            /\ "inputs" \in DOMAIN cfgTree.l2main.blocks[n]
            /\ HasToken(cfgOrig.l2main.blocks[n]["inputs"], "vpc") =>
                  HasToken(cfgTree.l2main.blocks[n]["inputs"], "vpc")
            /\ cfgTree.l2main.blocks[n]["inputs"] = EmptyObj =>
                  cfgOrig.l2main.blocks[n]["inputs"] \in { EmptyObj, DepOnly }

\* The part of C29 about the inputs without a deployment_id key: they stay
\* as they were, and empty inputs and inputs with the deployment_id key
\* alone become the empty object.
C29_InputsWithoutDeploymentIdKept ==
    (cleanRuns = 1 /\ cfgOrig.l2main.exists /\ cfgOrig.l2main.parses) =>
        \A n \in BlocksWithInputs :
            /\ n \in DOMAIN cfgTree.l2main.blocks
            /\ "inputs" \in DOMAIN cfgTree.l2main.blocks[n]
            /\ cfgOrig.l2main.blocks[n]["inputs"] = OtherKeys =>
                  cfgTree.l2main.blocks[n]["inputs"] = OtherKeys
            /\ cfgOrig.l2main.blocks[n]["inputs"] \in { EmptyObj, DepOnly } =>
                  cfgTree.l2main.blocks[n]["inputs"] = EmptyObj

SanitizedKeys == { "flavor", "version", "kind" }

\* C20: a parse failure on one file during CleanExportedFiles is not fatal:
\* the file that does not parse (an HCL .tf file, the downloaded state, an
\* input_*.tf.json) is left as it was, and every remaining file and rule of
\* the run is still processed; in particular input_db.tf.json loses flavor,
\* version and kind whether or not the downloaded state parses.
C20_ParseFailuresContained ==
    cleanRuns = 1 =>
        /\ \A f \in { "l2main", "modVars", "outputs", "tfstate", "inputJson" } :
              (cfgOrig[f].exists /\ ~cfgOrig[f].parses) => cfgTree[f] = cfgOrig[f]
        /\ cfgTree.outputs = cleanupOutputsTf(cfgOrig.outputs)
        /\ cfgTree.modVars = cleanupModuleVariablesTf(fixModuleVariables(cfgOrig.modVars))
        /\ (cfgOrig.inputJson.exists /\ cfgOrig.inputJson.parses) =>
              cfgTree.inputJson.keys \cap SanitizedKeys = {}

\* The part of C20 about the HCL files and about the file that does not
\* parse: it is left as it was, and a .tf file that does not parse stops no
\* other file's rules.
C20_HclParseFailuresContained ==
    cleanRuns = 1 =>
        /\ \A f \in { "l2main", "modVars", "outputs", "tfstate", "inputJson" } :
              (cfgOrig[f].exists /\ ~cfgOrig[f].parses) => cfgTree[f] = cfgOrig[f]
        /\ cfgTree.outputs = cleanupOutputsTf(cfgOrig.outputs)
        /\ cfgTree.modVars = cleanupModuleVariablesTf(fixModuleVariables(cfgOrig.modVars))
        /\ \A q \in cfgTree.plain : Base(q) # "cc_metadata.tf"

(***************************************************************************)
(*                 RETENTION (cmd/common.go: cleanupOldReleases)           *)
(***************************************************************************)
MaxNames == 15       \* names a directory listing can hold

\* Names stand for their rank in the order sort.Strings gives them.
Names == 1..MaxNames

\* What a listing holds besides the directories of envDir and the zips of
\* baseDir that match the pattern.
OtherEntries == { "envDir/tf.tfstate", "baseDir/notes.zip", "baseDir/dir" }

InitRel ==
    /\ \/ relDirs \in SUBSET Names /\ relZips \in { {}, Names }
       \/ relDirs \in { {}, Names } /\ relZips \in SUBSET Names
    /\ relKeep \in { {}, OtherEntries }
    /\ relBefore = [dirs |-> relDirs, zips |-> relZips, keep |-> relKeep]
    /\ relDone = FALSE
    /\ DiffIdle
    /\ ConsIdle
    /\ ExpIdle
    /\ WsIdle
    /\ CleanIdle
    /\ IdIdle
    /\ StdIdle

\* cleanupOldReleases(envDir, baseDir, envID)
DoCleanupOldReleases ==
    /\ ~relDone
    /\ relDirs' = KeepNewest(relDirs)
    /\ relZips' = KeepNewest(relZips)
    /\ relDone' = TRUE
    /\ UNCHANGED <<relKeep, relBefore, notRel>>

NextRel == DoCleanupOldReleases

SpecRel == InitRel /\ [][NextRel]_vars

\* S is made of the n largest names of T.
LargestOf(S, T, n) ==
    /\ S \subseteq T
    /\ Cardinality(S) = n
    /\ \A x \in S, y \in T \ S : y < x

Retained(after, before) ==
    IF Cardinality(before) > 10
    THEN LargestOf(after, before, 10)
    ELSE after = before

\* C13: after cleanupOldReleases, of K > 10 directories of the environment
\* exactly the 10 with the largest names remain (of 15, the 5 smallest are
\* gone), of K <= 10 all remain; the same holds, independently, for the zip
\* files of the base directory whose names match the pattern.
C13_RetentionBound ==
    relDone =>
        /\ Retained(relDirs, relBefore.dirs)
        /\ Retained(relZips, relBefore.zips)
        /\ relKeep = relBefore.keep

\* 15 directories and 12 of the 15 zips: the directories 6..15 remain and the
\* two zips with the smallest names are gone.
C13_Witness ==
    /\ relDone
    /\ relBefore.dirs = 1..15
    /\ relDirs = 6..15
    /\ Cardinality(relBefore.zips) = 12
    /\ Cardinality(relZips) = 10

(***************************************************************************)
(*       ARTIFACT NAMES (pkg/utils/utils.go: ExtractDeploymentID)          *)
(***************************************************************************)
MaxStem == 44        \* characters of a file name before its extension

\* The name of a file before its extension is modelled by its length and by
\* the characters it is made of: "hexdash" when all are hexadecimal digits or
\* dashes, "legacy" when it reads terraform-export-<env>-<deployment>-
\* <timestamp> (which has letters that are no hexadecimal digits), "other"
\* for anything else.
MinLegacy == 22

Stems ==
    [chars : { "hexdash", "other" }, len : 0..MaxStem] \cup
    [chars : { "legacy" }, len : MinLegacy..MaxStem]

ZipPaths == [dir : { "", "/tmp/exports/" }, stem : Stems, ext : { ".zip", ".tgz" }]

\* utils.ExtractDeploymentID(zipPath): the base name against
\* ^([a-fA-F0-9-]{24,36})\.zip$
ExtractDeploymentID(path) ==
    IF /\ path.ext = ".zip"
       /\ path.stem.chars = "hexdash"
       /\ path.stem.len >= 24
       /\ path.stem.len <= 36
    THEN [id |-> path.stem, err |-> FALSE]
    ELSE [id |-> NoStem, err |-> TRUE]

InitId ==
    /\ zipPath \in ZipPaths
    /\ idRes = NoId
    /\ DiffIdle
    /\ ConsIdle
    /\ ExpIdle
    /\ WsIdle
    /\ CleanIdle
    /\ RelIdle
    /\ StdIdle

\* runApply (runPlan, runDestroy) up to the first use of the workspace: an
\* error of ExtractDeploymentID ends the command.
DoExtractDeploymentID ==
    /\ ~idRes.done
    /\ \E r \in { ExtractDeploymentID(zipPath) } :
         idRes' = [done |-> TRUE, id |-> r.id, err |-> r.err, touched |-> ~r.err]
    /\ UNCHANGED <<zipPath, notId>>

NextId == DoExtractDeploymentID

SpecId == InitId /\ [][NextId]_vars

\* <deploymentID>.zip with a UUID-shaped deploymentID: 32 hexadecimal digits,
\* or 36 characters with the dashes.
IsUuidName(path) ==
    /\ path.ext = ".zip"
    /\ path.stem.chars = "hexdash"
    /\ path.stem.len \in { 32, 36 }

\* terraform-export-<env>-<deployment>-<timestamp>.zip
IsLegacyName(path) == path.ext = ".zip" /\ path.stem.chars = "legacy"

\* C18: both <deploymentID>.zip with a UUID-shaped id and the older
\* terraform-export-<env>-<deployment>-<timestamp>.zip yield a deployment
\* identifier; a name of neither form yields an error and the command stops
\* before it touches the workspace.
C18_BothNamingsAccepted ==
    idRes.done =>
        /\ (IsUuidName(zipPath) \/ IsLegacyName(zipPath)) => ~idRes.err
        /\ idRes.err => ~idRes.touched

\* The part of C18 about the <deploymentID>.zip form and about rejection.
C18_UuidAcceptedOthersAbort ==
    idRes.done =>
        /\ IsUuidName(zipPath) => (~idRes.err /\ idRes.id = zipPath.stem)
        /\ (zipPath.ext # ".zip" \/ zipPath.stem.chars = "other") =>
              (idRes.err /\ ~idRes.touched)

(***************************************************************************)
(* GOROUTINES OF EXPORT-ALL: ExportProgress.mu AND THE PROCESS-WIDE STDOUT *)
(*                                                                         *)
(* One goroutine per environment (exportEnvironmentsParallel), the display *)
(* goroutine and exportSingleProject itself.  UpdateStatus and SetError    *)
(* lock, change the record in memory and unlock: they are one step, taken  *)
(* when the mutex is free.  DisplayStatus prints while it holds the mutex, *)
(* one step per unit of output.  A write to a pipe nobody reads waits when *)
(* the pipe is full; a write to a closed file fails at once.               *)
(***************************************************************************)
MaxWorkers == 2      \* environments exported in parallel
PipeCap == 2         \* units of output a pipe buffers
MaxCleanOut == 3     \* units of output CleanExportedFiles prints at most
RenderUnits == 2     \* units of output of one DisplayStatus

\* The display goroutine as holder of the mutex.
DisplayG == 0 - 1

Workers == 1..Len(gPc)

InitStd ==
    /\ \E n \in 1..MaxWorkers :
         /\ gPc = [i \in 1..n |-> "start"]
         /\ gStatus = [i \in 1..n |-> "pending"]
         /\ oldStdout = [i \in 1..n |-> 0]
         /\ pipeW = [i \in 1..n |-> "none"]
         /\ pipeFill = [i \in 1..n |-> 0]
         /\ cleanOut \in [1..n -> 0..MaxCleanOut]
    /\ mu = 0
    /\ osStdout = 0
    /\ tPc = "idle"
    /\ tLeft = 0
    /\ jPc = "wait"
    /\ finalOut = "none"
    /\ DiffIdle
    /\ ConsIdle
    /\ ExpIdle
    /\ WsIdle
    /\ CleanIdle
    /\ RelIdle
    /\ IdIdle

\* A write to the file os.Stdout points to returns: the real output takes
\* it, a closed file refuses it, an open pipe takes it while it has room.
CanWrite(dest) ==
    IF dest = 0 THEN TRUE
    ELSE IF pipeW[dest] # "open" THEN TRUE
    ELSE pipeFill[dest] < PipeCap

FillAfterWrite(dest) ==
    IF dest = 0 THEN pipeFill
    ELSE IF pipeW[dest] = "open" THEN [pipeFill EXCEPT ![dest] = @ + 1]
    ELSE pipeFill

\* The worker moves on; its record gets the status.
GoTo(i, pc, status) ==
    /\ gPc' = [gPc EXCEPT ![i] = pc]
    /\ gStatus' = [gStatus EXCEPT ![i] = status]

\* exportSingleEnvironment: env.StartTime = time.Now(), on the record the
\* progress aggregator holds, without the mutex.
GStart(i) ==
    /\ gPc[i] = "start"
    /\ GoTo(i, "trigger", gStatus[i])
    /\ UNCHANGED <<mu, osStdout, oldStdout, pipeW, pipeFill, cleanOut, tPc, tLeft,
                   jPc, finalOut, notStd>>

\* UpdateStatus(.., "triggering", ..) and the lookup of a running export.
GTrigger(i) ==
    /\ gPc[i] = "trigger"
    /\ mu = 0
    /\ GoTo(i, "poll", "triggering")
    /\ UNCHANGED <<mu, osStdout, oldStdout, pipeW, pipeFill, cleanOut, tPc, tLeft,
                   jPc, finalOut, notStd>>

\* WaitForExportCompletion: one poll.  A job still running is reported
\* through UpdateStatus(.., "waiting", ..).
GPoll(i, res) ==
    /\ gPc[i] = "poll"
    /\ CASE res = "IN_PROGRESS" -> mu = 0 /\ GoTo(i, "poll", "waiting")
         [] res = "SUCCEEDED" -> GoTo(i, "fetch", gStatus[i])
         [] OTHER -> GoTo(i, "error", gStatus[i])
    /\ UNCHANGED <<mu, osStdout, oldStdout, pipeW, pipeFill, cleanOut, tPc, tLeft,
                   jPc, finalOut, notStd>>

\* DownloadExport and ExtractZip with their status updates.
GFetch(i, ok) ==
    /\ gPc[i] = "fetch"
    /\ mu = 0
    /\ GoTo(i, IF ok THEN "cleaning" ELSE "error", "extracting")
    /\ UNCHANGED <<mu, osStdout, oldStdout, pipeW, pipeFill, cleanOut, tPc, tLeft,
                   jPc, finalOut, notStd>>

\* UpdateStatus(.., "cleaning", ..)
GCleaning(i) ==
    /\ gPc[i] = "cleaning"
    /\ mu = 0
    /\ GoTo(i, "save", "cleaning")
    /\ UNCHANGED <<mu, osStdout, oldStdout, pipeW, pipeFill, cleanOut, tPc, tLeft,
                   jPc, finalOut, notStd>>

\* oldStdout := os.Stdout; r, w, _ := os.Pipe()
GSave(i) ==
    /\ gPc[i] = "save"
    /\ oldStdout' = [oldStdout EXCEPT ![i] = osStdout]
    /\ pipeW' = [pipeW EXCEPT ![i] = "open"]
    /\ GoTo(i, "redirect", gStatus[i])
    /\ UNCHANGED <<mu, osStdout, pipeFill, cleanOut, tPc, tLeft, jPc, finalOut,
                   notStd>>

\* os.Stdout = w
GRedirect(i) ==
    /\ gPc[i] = "redirect"
    /\ osStdout' = i
    /\ GoTo(i, "clean", gStatus[i])
    /\ UNCHANGED <<mu, oldStdout, pipeW, pipeFill, cleanOut, tPc, tLeft, jPc,
                   finalOut, notStd>>

\* utils.CleanExportedFiles prints one unit to what os.Stdout is now.
GCleanPrint(i) ==
    /\ gPc[i] = "clean"
    /\ cleanOut[i] > 0
    /\ CanWrite(osStdout)
    /\ pipeFill' = FillAfterWrite(osStdout)
    /\ cleanOut' = [cleanOut EXCEPT ![i] = @ - 1]
    /\ UNCHANGED <<gPc, gStatus, mu, osStdout, oldStdout, pipeW, tPc, tLeft, jPc,
                   finalOut, notStd>>

\* utils.CleanExportedFiles returns.
GCleanReturn(i) ==
    /\ gPc[i] = "clean"
    /\ cleanOut[i] = 0
    /\ GoTo(i, "closeW", gStatus[i])
    /\ UNCHANGED <<mu, osStdout, oldStdout, pipeW, pipeFill, cleanOut, tPc, tLeft,
                   jPc, finalOut, notStd>>

\* w.Close()
GCloseW(i) ==
    /\ gPc[i] = "closeW"
    /\ pipeW' = [pipeW EXCEPT ![i] = "closed"]
    /\ GoTo(i, "restore", gStatus[i])
    /\ UNCHANGED <<mu, osStdout, oldStdout, pipeFill, cleanOut, tPc, tLeft, jPc,
                   finalOut, notStd>>

\* os.Stdout = oldStdout
GRestore(i) ==
    /\ gPc[i] = "restore"
    /\ osStdout' = oldStdout[i]
    /\ GoTo(i, "drain", gStatus[i])
    /\ UNCHANGED <<mu, oldStdout, pipeW, pipeFill, cleanOut, tPc, tLeft, jPc,
                   finalOut, notStd>>

\* io.Copy(io.Discard, r); r.Close(); os.Remove(zipPath)
GDrain(i) ==
    /\ gPc[i] = "drain"
    /\ pipeFill' = [pipeFill EXCEPT ![i] = 0]
    /\ GoTo(i, "complete", gStatus[i])
    /\ UNCHANGED <<mu, osStdout, oldStdout, pipeW, cleanOut, tPc, tLeft, jPc,
                   finalOut, notStd>>

\* UpdateStatus(.., "complete", outputPath)
GComplete(i) ==
    /\ gPc[i] = "complete"
    /\ mu = 0
    /\ GoTo(i, "path", "complete")
    /\ UNCHANGED <<mu, osStdout, oldStdout, pipeW, pipeFill, cleanOut, tPc, tLeft,
                   jPc, finalOut, notStd>>

\* Back in exportSingleEnvironment: env.OutputPath = .., without the mutex;
\* then wg.Done.
GPath(i) ==
    /\ gPc[i] = "path"
    /\ GoTo(i, "done", gStatus[i])
    /\ UNCHANGED <<mu, osStdout, oldStdout, pipeW, pipeFill, cleanOut, tPc, tLeft,
                   jPc, finalOut, notStd>>

\* progress.SetError, then wg.Done.
GError(i) ==
    /\ gPc[i] = "error"
    /\ mu = 0
    /\ GoTo(i, "done", "failed")
    /\ UNCHANGED <<mu, osStdout, oldStdout, pipeW, pipeFill, cleanOut, tPc, tLeft,
                   jPc, finalOut, notStd>>

\* The display goroutine: DisplayStatus locks the mutex.
TLock ==
    /\ tPc = "idle"
    /\ jPc # "returned"
    /\ mu = 0
    /\ mu' = DisplayG
    /\ tPc' = "render"
    /\ tLeft' = RenderUnits
    /\ UNCHANGED <<gPc, gStatus, osStdout, oldStdout, pipeW, pipeFill, cleanOut,
                   jPc, finalOut, notStd>>

\* DisplayStatus prints one unit (fmt.Print, fmt.Println, fmt.Printf) to
\* what os.Stdout is now, reading the records for it.
TPrint ==
    /\ tPc = "render"
    /\ tLeft > 0
    /\ CanWrite(osStdout)
    /\ pipeFill' = FillAfterWrite(osStdout)
    /\ tLeft' = tLeft - 1
    /\ UNCHANGED <<gPc, gStatus, mu, osStdout, oldStdout, pipeW, cleanOut, tPc,
                   jPc, finalOut, notStd>>

\* DisplayStatus returns: the deferred Unlock.
TUnlock ==
    /\ tPc = "render"
    /\ tLeft = 0
    /\ mu' = 0
    /\ tPc' = "idle"
    /\ UNCHANGED <<gPc, gStatus, osStdout, oldStdout, pipeW, pipeFill, cleanOut,
                   tLeft, jPc, finalOut, notStd>>

\* The display goroutine takes the done case of its select.
TStop ==
    /\ tPc = "idle"
    /\ jPc # "wait"
    /\ tPc' = "stopped"
    /\ UNCHANGED <<gPc, gStatus, mu, osStdout, oldStdout, pipeW, pipeFill,
                   cleanOut, tLeft, jPc, finalOut, notStd>>

\* exportEnvironmentsParallel: wg.Wait() returns; close(done).
JJoin ==
    /\ jPc = "wait"
    /\ \A i \in Workers : gPc[i] = "done"
    /\ jPc' = "closed"
    /\ UNCHANGED <<gPc, gStatus, mu, osStdout, oldStdout, pipeW, pipeFill,
                   cleanOut, tPc, tLeft, finalOut, notStd>>

\* The final DisplayStatus, PrintSummary and the rest: exportSingleProject
\* returns.
JFinal ==
    /\ jPc = "closed"
    /\ mu = 0
    /\ CanWrite(osStdout)
    /\ finalOut' = IF osStdout = 0 THEN "stdout" ELSE "lost"
    /\ jPc' = "returned"
    /\ UNCHANGED <<gPc, gStatus, mu, osStdout, oldStdout, pipeW, pipeFill,
                   cleanOut, tPc, tLeft, notStd>>

Worker(i) ==
    \/ GStart(i)
    \/ GTrigger(i)
    \/ \E res \in { "IN_PROGRESS", "SUCCEEDED", "FAILED" } : GPoll(i, res)
    \/ \E ok \in BOOLEAN : GFetch(i, ok)
    \/ GCleaning(i)
    \/ GSave(i)
    \/ GRedirect(i)
    \/ GCleanPrint(i)
    \/ GCleanReturn(i)
    \/ GCloseW(i)
    \/ GRestore(i)
    \/ GDrain(i)
    \/ GComplete(i)
    \/ GPath(i)
    \/ GError(i)

Display == TLock \/ TPrint \/ TUnlock \/ TStop

Main == JJoin \/ JFinal

NextStd ==
    \/ \E i \in Workers : Worker(i)
    \/ Display
    \/ Main

SpecStd == InitStd /\ [][NextStd]_vars

\* The scheduler runs every goroutine that can run; sync.Mutex hands the
\* lock to a goroutine that has waited (starvation mode), so a goroutine
\* that finds the mutex free again and again gets it; the control plane
\* ends every export job.
FairStd ==
    /\ \A i \in 1..MaxWorkers :
         /\ SF_vars(i \in Workers /\ Worker(i))
         /\ SF_vars(i \in Workers /\ \E res \in { "SUCCEEDED", "FAILED" } : GPoll(i, res))
    /\ WF_vars(Display)
    /\ SF_vars(Main)

LiveStd == InitStd /\ [][NextStd]_vars /\ FairStd

\* The positions at which a worker's next statement writes a field of its
\* record (StartTime, OutputPath) without holding the mutex.
UnlockedWritePcs == { "start", "path" }

\* The positions at which a worker's next statement is UpdateStatus or
\* SetError.
LockPcs == { "trigger", "fetch", "cleaning", "complete", "error" }

\* C24: every read and write of a status record happens under the
\* ExportProgress mutex: no worker is at a write of a field of its record
\* while the display goroutine reads the records in DisplayStatus.
C24_MutexDiscipline ==
    \A i \in Workers : ~(gPc[i] \in UnlockedWritePcs /\ tPc = "render")

\* The part of C24 about UpdateStatus, SetError and DisplayStatus: while
\* DisplayStatus reads the records it holds the mutex, and the mutex has
\* one holder.
C24_DisplayHoldsMutex ==
    (tPc = "render") <=> (mu = DisplayG)

\* C25: the mutex is never held across a blocking call: no worker waits at
\* UpdateStatus or SetError for a DisplayStatus that waits on its output.
C25_NoBlockingUnderLock ==
    \A i \in Workers :
        ~(/\ gPc[i] \in LockPcs
          /\ mu = DisplayG
          /\ tLeft > 0
          /\ ~CanWrite(osStdout))

AllWorkersDone == \A i \in Workers : gPc[i] = "done"

\* C26: every worker ends "complete" or "failed", the join completes and
\* exportSingleProject returns, when every remote call returns and every
\* export job ends.
C26_Termination ==
    <>(/\ AllWorkersDone
       /\ \A i \in Workers : IsTerminal(gStatus[i])
       /\ jPc = "returned")

\* The same for the runs in which CleanExportedFiles prints nothing.
C26_TerminationQuietClean ==
    (\A i \in Workers : cleanOut[i] = 0) =>
        <>(/\ AllWorkersDone
           /\ \A i \in Workers : IsTerminal(gStatus[i])
           /\ jPc = "returned")

\* C28: once all workers have finished, os.Stdout is the original stdout
\* again, and the final status render goes to it.
C28_StdoutRestored ==
    /\ AllWorkersDone => osStdout = 0
    /\ finalOut # "lost"

\* The same for one worker, whose cleaning step no other one overlaps.
C28_StdoutRestoredAlone ==
    Len(gPc) = 1 =>
        /\ AllWorkersDone => osStdout = 0
        /\ finalOut # "lost"

====
